---- MODULE Spec2Model ----
(***************************************************************************)
(* Fairy-Tale-Diary: a React application that turns an AI analysis of a    *)
(* story video into an editable book-report card, exports the card as an   *)
(* image and keeps the exported entries in localStorage.                   *)
(*                                                                         *)
(* Strings are modelled as sequences of one-character tokens.  The four    *)
(* labels of the analysis format are single tokens (no label is a prefix,  *)
(* suffix or infix of another, and none contains white space), weighted    *)
(* by their real length wherever String.length is read.                    *)
(***************************************************************************)
EXTENDS Integers, Sequences, FiniteSets, TLC

VARIABLES
    \* ---- App (src/unnamed/part_000) ----
    entries,            \* useState<StoryEntry[]>
    currentDraft,       \* useState<{videoId,url,analysis} | null>
    fontFamily,
    fontSize,
    drawingLevel,
    writingGrade,
    isFocusMode,
    \* ---- browser and React runtime around App ----
    storage,            \* localStorage item 'fairyTaleEntries'
    pendingEffects,     \* effects of the last commit of App not yet run, in order
    queuedEntries,      \* setEntries(value) called inside an effect, applied by the next render
    \* ---- StoryForm (src/components/StoryForm.tsx) ----
    url,
    isAnalyzing,
    formError,
    analyzeCall,        \* closure of the handleAnalyze run awaiting analyzeStoryLink
    \* ---- StoryWorkspace (src/components/StoryWorkspace.tsx) ----
    title,
    summary,
    favoriteScene,
    thoughts,
    generatedImage,
    isDrawing,
    isSavingImage,
    workspaceError,
    isSpeakingSummary,
    isGeneratingSummarySpeech,
    audioContextRef,
    sourceNodeRef,
    playingSource,      \* Web Audio: a started source is sounding (not stopped, not ended)
    endedPending,       \* Web Audio: the ended event of a stopped source is still to be dispatched
    isPreviewMode,
    loadedId,
    loadedVideoUrl,
    loadedVideoId,
    drawCall,           \* closure of the handleDrawScene run awaiting generateSceneImage
    speechCall,         \* closure of the handlePlaySummary run awaiting speech / decoding
    exportCall,         \* closure of the handleDownloadImage run awaiting html2canvas
    \* ---- analyzeStoryLink called on its own (src/services/geminiService.ts) ----
    responseText,
    manualTitle,
    analysisResult,
    \* ---- generateSceneImage, generateStorySpeech and analyzeStoryLink with the API ----
    serviceCall,        \* the arguments, process.env.API_KEY and what the API answers
    serviceResult,      \* what the promise of the service function settles with
    \* ---- history ----
    savedEntriesAtMount,\* what localStorage held when App mounted
    lastCall            \* the handler, effect or callback that made the last step

appVars == <<entries, currentDraft, isFocusMode>>
styleVars == <<fontFamily, fontSize, drawingLevel, writingGrade>>
runtimeVars == <<storage, pendingEffects, queuedEntries>>
formVars == <<url, isAnalyzing, formError, analyzeCall>>
fieldVars == <<title, summary, favoriteScene, thoughts, generatedImage>>
flagVars == <<isDrawing, isSavingImage, workspaceError, isPreviewMode>>
audioVars == <<isSpeakingSummary, isGeneratingSummarySpeech, audioContextRef, sourceNodeRef,
               playingSource, endedPending, speechCall>>
loadedVars == <<loadedId, loadedVideoUrl, loadedVideoId>>
callVars == <<drawCall, exportCall>>
workspaceVars == <<fieldVars, flagVars, audioVars, loadedVars, callVars>>
parserVars == <<responseText, manualTitle, analysisResult, serviceCall, serviceResult>>

vars == <<appVars, styleVars, runtimeVars, formVars, workspaceVars, parserVars,
          savedEntriesAtMount, lastCall>>

Null == "null"              \* JavaScript null, where the other values are strings
Undefined == "undefined"    \* JavaScript undefined, where the other values are strings
None == <<>>                \* JavaScript null, where the other values are objects
Some(v) == <<v>>

(***************************************************************************)
(* Strings                                                                 *)
(***************************************************************************)
EmptyString == <<>>
Str(c) == <<c>>

\* a string is truthy exactly when it is not empty
Truthy(s) == s # EmptyString

Min(S) == CHOOSE x \in S : \A y \in S : x <= y
Max(S) == CHOOSE x \in S : \A y \in S : x >= y

\* the labels of the output format asked for in the prompt
TitleLabel == "[jemok:]"        \* '제목:'
SummaryLabel == "[julgeori:]"   \* '줄거리:'
SceneLabel == "[jangmyeon:]"    \* '장면:'
ThoughtsLabel == "[neukkinjeom:]" \* '느낀점:'
Labels == {TitleLabel, SummaryLabel, SceneLabel, ThoughtsLabel}

Space == " "
Newline == "\n"
Letter == "a"

\* String.length of one token: the number of UTF-16 units of what it stands for
CharLength(c) ==
    CASE c = TitleLabel -> 3
      [] c = SummaryLabel -> 4
      [] c = SceneLabel -> 3
      [] c = ThoughtsLabel -> 4
      [] OTHER -> 1

RECURSIVE StringLength(_)
StringLength(s) == IF s = <<>> THEN 0 ELSE CharLength(Head(s)) + StringLength(Tail(s))

\* the regular expression class \s
IsSpace(c) == c \in {Space, Newline}
\* what the regular expression dot does not match
IsLineTerminator(c) == c = Newline

\* String.prototype.trim
Trim(s) ==
    LET keep == {i \in 1..Len(s) : ~IsSpace(s[i])}
    IN IF keep = {} THEN EmptyString ELSE SubSeq(s, Min(keep), Max(keep))

(***************************************************************************)
(* The regular expressions of analyzeStoryLink.  A match is the record     *)
(* [matched, group]; matched = FALSE stands for the null that              *)
(* String.match returns.                                                   *)
(***************************************************************************)
NoMatch == [matched |-> FALSE, group |-> EmptyString]
Match(g) == [matched |-> TRUE, group |-> g]

\* greedy \s* from position i: the first position that is past the end or not white space
SkipSpaces(s, i) ==
    CHOOSE j \in i..(Len(s) + 1) :
        /\ \A k \in i..(j - 1) : IsSpace(s[k])
        /\ j = Len(s) + 1 \/ ~IsSpace(s[j])

\* greedy .+ from position st: the last position of the run without line terminator
LineEnd(s, st) ==
    CHOOSE e \in st..Len(s) :
        /\ \A k \in st..e : ~IsLineTerminator(s[k])
        /\ e = Len(s) \/ IsLineTerminator(s[e + 1])

\* mutant of LookaheadAt: the lookahead for the next label forgotten
LookaheadAtEndOnly(s, q, stop) == Len(s) + 1

\* lazy [\s\S]*? before the lookahead (?=stop|$): the first position from q that
\* holds the stop label, or the position past the end
LookaheadAt(s, q, stop) ==
    CHOOSE r \in q..(Len(s) + 1) :
        /\ r = Len(s) + 1 \/ s[r] = stop
        /\ \A k \in q..(r - 1) : s[k] # stop

\* where .+ can start after the label at p: \s* takes the longest run of white
\* space and gives characters back until the dot has one it matches
TitleStarts(s, p) ==
    LET q == SkipSpaces(s, p + 1)
        last == IF q <= Len(s) THEN q ELSE Len(s)
    IN {st \in (p + 1)..last : ~IsLineTerminator(s[st])}

\* text.match(/제목:\s*(.+)/)
TitleMatch(s) ==
    LET at == {p \in 1..Len(s) : s[p] = TitleLabel /\ TitleStarts(s, p) # {}}
    IN IF at = {} THEN NoMatch
       ELSE LET st == Max(TitleStarts(s, Min(at)))
            IN Match(SubSeq(s, st, LineEnd(s, st)))

\* text.match(/label:\s*([\s\S]*?)(?=stop:|$)/)
SectionMatch(s, label, stop) ==
    LET at == {p \in 1..Len(s) : s[p] = label}
    IN IF at = {} THEN NoMatch
       ELSE LET q == SkipSpaces(s, Min(at) + 1)
            IN Match(SubSeq(s, q, LookaheadAt(s, q, stop) - 1))

\* text.match(/줄거리:\s*([\s\S]*?)(?=장면:|$)/)
SummaryMatch(s) == SectionMatch(s, SummaryLabel, SceneLabel)
\* text.match(/장면:\s*([\s\S]*?)(?=느낀점:|$)/)
SceneMatch(s) == SectionMatch(s, SceneLabel, ThoughtsLabel)
\* text.match(/느낀점:\s*([\s\S]*?)$/)
ThoughtsMatch(s) ==
    LET at == {p \in 1..Len(s) : s[p] = ThoughtsLabel}
    IN IF at = {} THEN NoMatch
       ELSE Match(SubSeq(s, SkipSpaces(s, Min(at) + 1), Len(s)))

\* `m && m[1]`
Extracted(m) == m.matched /\ Truthy(m.group)

TitleNotFoundMessage == Str("(the title of the story was not found)")
SummaryFailedMessage == Str("(fetching the summary failed, check the link)")
FallbackLength == 10    \* text.length > 10

\* `manualTitle || ""`; an omitted manualTitle is the empty string here: the code
\* only ever reads its truthiness, which undefined and "" share
DefaultTitle(manual) == IF Truthy(manual) THEN manual ELSE EmptyString

\* mutant of TitleOf: the final `if (!title)` fallback left out
TitleOfNoFallback(text, manual) ==
    LET m == TitleMatch(text)
    IN IF Extracted(m) THEN Trim(m.group) ELSE DefaultTitle(manual)

TitleOf(text, manual) ==
    LET m == TitleMatch(text)
        t == IF Extracted(m) THEN Trim(m.group) ELSE DefaultTitle(manual)
    IN IF Truthy(t) THEN t ELSE TitleNotFoundMessage

\* mutant of SummaryOf: the final `if (!summary)` fallback left out
SummaryOfNoFallback(text) ==
    LET m == SummaryMatch(text)
    IN IF Extracted(m) THEN Trim(m.group)
       ELSE IF ~TitleMatch(text).matched /\ StringLength(text) > FallbackLength THEN text
       ELSE EmptyString

\* mutant of SummaryOf: the whole text is taken whether or not the title
\* pattern matched
SummaryOfWholeText(text) ==
    LET m == SummaryMatch(text)
        t == IF Extracted(m) THEN Trim(m.group)
             ELSE IF StringLength(text) > FallbackLength THEN text
             ELSE EmptyString
    IN IF Truthy(t) THEN t ELSE SummaryFailedMessage

SummaryOf(text) ==
    LET m == SummaryMatch(text)
        t == IF Extracted(m) THEN Trim(m.group)
             ELSE IF ~TitleMatch(text).matched /\ StringLength(text) > FallbackLength THEN text
             ELSE EmptyString
    IN IF Truthy(t) THEN t ELSE SummaryFailedMessage

SceneOf(text) ==
    LET m == SceneMatch(text)
    IN IF Extracted(m) THEN Trim(m.group) ELSE EmptyString

ThoughtsOf(text) ==
    LET m == ThoughtsMatch(text)
    IN IF Extracted(m) THEN Trim(m.group) ELSE EmptyString

\* the value analyzeStoryLink resolves to when the API call returned `text`
ParseAnalysis(text, manual) ==
    [title |-> TitleOf(text, manual),
     summary |-> SummaryOf(text),
     recommendedScene |-> SceneOf(text),
     recommendedThoughts |-> ThoughtsOf(text)]

(***************************************************************************)
(* Values                                                                  *)
(***************************************************************************)
FontFamilies == <<"basic", "cute", "hand", "dongle", "gamja", "poor">>
FontSizes == <<"x-small", "small", "medium", "large", "x-large">>
DrawingLevels == <<"low", "medium", "high">>
WritingGrades == {1, 2, 3, 4, 5, 6}

Range(f) == {f[i] : i \in DOMAIN f}

\* all strings over the alphabet A of length at most n
StringsUpTo(A, n) == UNION {[1..k -> A] : k \in 0..n}

Alphabet == Labels \cup {Letter, Space, Newline}

\* response texts: every short text, and the texts in the format the prompt asks for
MaxTextLen == 4
SectionContents ==
    {<<Letter>>, <<Space>>, <<Newline>>, <<Space, Letter>>, <<Newline, Letter>>,
     <<Letter, Space>>, <<Letter, Newline, Letter>>, <<Space, Letter, Newline>>}
Preambles == {EmptyString, <<Letter, Newline>>}
FormattedTexts ==
    {pre \o <<TitleLabel>> \o c1 \o <<SummaryLabel>> \o c2 \o <<SceneLabel>> \o c3
         \o <<ThoughtsLabel>> \o c4 :
        pre \in Preambles, c1 \in SectionContents, c2 \in SectionContents,
        c3 \in SectionContents, c4 \in SectionContents}
ResponseTexts == StringsUpTo(Alphabet, MaxTextLen) \cup FormattedTexts
ManualTitles == {EmptyString, <<Letter>>}

(***************************************************************************)
(* Initial state: what the components' useState and useRef calls set       *)
(***************************************************************************)
InitStyle ==
    /\ fontFamily = "basic"
    /\ fontSize = "medium"
    /\ drawingLevel = "low"
    /\ writingGrade = 1

InitApp ==
    /\ entries = <<>>
    /\ currentDraft = None
    /\ isFocusMode = FALSE

InitForm ==
    /\ url = ""
    /\ isAnalyzing = FALSE
    /\ formError = Null
    /\ analyzeCall = None

InitWorkspace ==
    /\ title = EmptyString
    /\ summary = EmptyString
    /\ favoriteScene = EmptyString
    /\ thoughts = EmptyString
    /\ generatedImage = Null
    /\ isDrawing = FALSE
    /\ isSavingImage = FALSE
    /\ workspaceError = Null
    /\ isSpeakingSummary = FALSE
    /\ isGeneratingSummarySpeech = FALSE
    /\ audioContextRef = Null
    /\ sourceNodeRef = Null
    /\ playingSource = FALSE
    /\ endedPending = FALSE
    /\ isPreviewMode = FALSE
    /\ loadedId = Null
    /\ loadedVideoUrl = ""
    /\ loadedVideoId = ""
    /\ drawCall = None
    /\ speechCall = None
    /\ exportCall = None

\* no analyzeStoryLink call made on its own
InitNoParse ==
    /\ responseText = EmptyString
    /\ manualTitle = EmptyString
    /\ analysisResult = None
    /\ serviceCall = None
    /\ serviceResult = None

\* localStorage.getItem: null, or the string stored
NoItem == [present |-> FALSE, parseable |-> FALSE, value |-> <<>>]
Item(json) == [present |-> TRUE, parseable |-> TRUE, value |-> json]
\* a stored string that JSON.parse rejects
CorruptItem == [present |-> TRUE, parseable |-> FALSE, value |-> <<>>]

\* App taken without its effects: nothing stored, nothing scheduled
InitNoRuntime ==
    /\ storage = NoItem
    /\ savedEntriesAtMount = NoItem
    /\ pendingEffects = <<>>
    /\ queuedEntries = None

Call(op) == [op |-> op]

(***************************************************************************)
(* analyzeStoryLink on its own: the API call has returned responseText     *)
(***************************************************************************)
InitParser ==
    /\ InitApp /\ InitStyle /\ InitForm /\ InitWorkspace /\ InitNoRuntime
    /\ responseText \in ResponseTexts
    /\ manualTitle \in ManualTitles
    /\ analysisResult = None
    /\ serviceCall = None
    /\ serviceResult = None
    /\ lastCall = Call("init")

analyzeStoryLink ==
    /\ analysisResult = None
    /\ analysisResult' = Some(ParseAnalysis(responseText, manualTitle))
    /\ lastCall' = Call("analyzeStoryLink")
    /\ UNCHANGED <<responseText, manualTitle, serviceCall, serviceResult, savedEntriesAtMount>>
    /\ UNCHANGED <<appVars, styleVars, runtimeVars, formVars, workspaceVars>>

NextParser == analyzeStoryLink

SpecParser == InitParser /\ [][NextParser]_vars

(***************************************************************************)
(* Claims about the analysis response parser                               *)
(***************************************************************************)
Parsed == analysisResult # None
Result == analysisResult[1]
Occurrences(s, label) == {p \in 1..Len(s) : s[p] = label}
Position(s, label) == CHOOSE p \in Occurrences(s, label) : TRUE
Between(s, from, to) == SubSeq(s, from + 1, to - 1)
\* the rest of the line that starts after position p
RestOfLine(s, p) ==
    LET ends == {e \in (p + 1)..Len(s) : s[e] = Newline}
    IN SubSeq(s, p + 1, IF ends = {} THEN Len(s) ELSE Min(ends) - 1)

\* C6 as stated: none of the four returned fields is the empty string.
C6_NoFieldEmpty ==
    Parsed =>
        /\ Result.title # EmptyString
        /\ Result.summary # EmptyString
        /\ Result.recommendedScene # EmptyString
        /\ Result.recommendedThoughts # EmptyString

\* C6 amended: the parser returns the four fields; title and summary are never
\* empty (a fallback text fills them when nothing is extracted), the scene and the
\* thoughts have no fallback and are empty when their label is missing.
C6_FallbacksForTitleAndSummary ==
    Parsed =>
        /\ DOMAIN Result = {"title", "summary", "recommendedScene", "recommendedThoughts"}
        /\ Result.title # EmptyString
        /\ Result.summary # EmptyString
        /\ Occurrences(responseText, TitleLabel) = {} =>
               Result.title \in {manualTitle, TitleNotFoundMessage}
        /\ Occurrences(responseText, SceneLabel) = {} => Result.recommendedScene = EmptyString
        /\ Occurrences(responseText, ThoughtsLabel) = {} => Result.recommendedThoughts = EmptyString

C6_Witness ==
    /\ Parsed
    /\ responseText # EmptyString
    /\ Occurrences(responseText, TitleLabel) = {}
    /\ Occurrences(responseText, SceneLabel) = {}
    /\ manualTitle = EmptyString
    /\ Result.title = TitleNotFoundMessage
    /\ Result.summary = SummaryFailedMessage
    /\ Result.recommendedScene = EmptyString

\* the four labels, once each and in the order of the format, each followed by
\* at least one character
InFormat(s) ==
    /\ \A label \in Labels : Cardinality(Occurrences(s, label)) = 1
    /\ Position(s, TitleLabel) + 1 < Position(s, SummaryLabel)
    /\ Position(s, SummaryLabel) + 1 < Position(s, SceneLabel)
    /\ Position(s, SceneLabel) + 1 < Position(s, ThoughtsLabel)
    /\ Position(s, ThoughtsLabel) < Len(s)

ExtractedAsWritten(s, r) ==
    /\ r.title = Trim(RestOfLine(s, Position(s, TitleLabel)))
    /\ r.summary = Trim(Between(s, Position(s, SummaryLabel), Position(s, SceneLabel)))
    /\ r.recommendedScene = Trim(Between(s, Position(s, SceneLabel), Position(s, ThoughtsLabel)))
    /\ r.recommendedThoughts = Trim(Between(s, Position(s, ThoughtsLabel), Len(s) + 1))

\* C7 as stated: for a text with the four labels in order, each followed by
\* non-empty content without labels, the fields are the trimmed rest of the title
\* line and the trimmed texts between the labels.
C7_OrderedExtraction ==
    Parsed /\ InFormat(responseText) => ExtractedAsWritten(responseText, Result)

\* each section holds a character that is not white space, the title's on the
\* title line itself
NonBlankSections(s) ==
    /\ Trim(RestOfLine(s, Position(s, TitleLabel))) # EmptyString
    /\ Trim(Between(s, Position(s, SummaryLabel), Position(s, SceneLabel))) # EmptyString
    /\ Trim(Between(s, Position(s, SceneLabel), Position(s, ThoughtsLabel))) # EmptyString
    /\ Trim(Between(s, Position(s, ThoughtsLabel), Len(s) + 1)) # EmptyString

\* C7 amended: the same, for texts in which every label is followed by content
\* that holds a character other than white space, the title's before the end of
\* the title line.
C7_OrderedExtractionNonBlank ==
    Parsed /\ InFormat(responseText) /\ NonBlankSections(responseText) =>
        ExtractedAsWritten(responseText, Result)

C7_Witness ==
    /\ Parsed
    /\ InFormat(responseText)
    /\ NonBlankSections(responseText)
    /\ Position(responseText, TitleLabel) > 1
    /\ responseText[Position(responseText, SummaryLabel) + 1] = Space
    /\ Len(Between(responseText, Position(responseText, SceneLabel),
                   Position(responseText, ThoughtsLabel))) = 3
    /\ Result.summary = <<Letter>>
    /\ Result.recommendedScene = <<Letter, Newline, Letter>>

(***************************************************************************)
(* The entry store of App: the entries state, its two handlers, and the    *)
(* two effects that load it from and save it to localStorage.              *)
(***************************************************************************)
EntryKeys ==
    {"id", "videoUrl", "videoId", "title", "summary", "favoriteScene", "thoughts",
     "generatedImageUrl", "styleConfig", "createdAt"}

Ids(list) == {list[i].id : i \in 1..Len(list)}
DistinctIds(list) == \A i, j \in 1..Len(list) : list[i].id = list[j].id => i = j

\* JSON.stringify of one entry: a property whose value is undefined is left out
StringifyEntry(e) ==
    IF e.generatedImageUrl = Undefined
    THEN [k \in EntryKeys \ {"generatedImageUrl"} |-> e[k]]
    ELSE e

\* JSON.stringify(entries)
JSONstringify(list) == [i \in 1..Len(list) |-> StringifyEntry(list[i])]

\* one parsed object: reading a property it does not have gives undefined
ParseEntry(o) ==
    [k \in EntryKeys |-> IF k \in DOMAIN o THEN o[k] ELSE Undefined]

\* JSON.parse(savedEntries)
JSONparse(json) == [i \in 1..Len(json) |-> ParseEntry(json[i])]

\* mutant of SaveEntryUpdater: the `exists` test left out
SaveEntryAlwaysPrepend(prev, entry) == <<entry>> \o prev

\* mutant of SaveEntryUpdater: a new entry goes to the back
SaveEntryAtBack(prev, entry) ==
    IF \E i \in 1..Len(prev) : prev[i].id = entry.id
    THEN [i \in 1..Len(prev) |-> IF prev[i].id = entry.id THEN entry ELSE prev[i]]
    ELSE prev \o <<entry>>

\* the updater handleSaveEntry hands to setEntries
SaveEntryUpdater(prev, entry) ==
    IF \E i \in 1..Len(prev) : prev[i].id = entry.id
    THEN [i \in 1..Len(prev) |-> IF prev[i].id = entry.id THEN entry ELSE prev[i]]
    ELSE <<entry>> \o prev

RECURSIVE Filter(_, _)
\* prev.filter(entry => entry.id !== id)
Filter(prev, id) ==
    IF prev = <<>> THEN <<>>
    ELSE IF Head(prev).id # id THEN <<Head(prev)>> \o Filter(Tail(prev), id)
    ELSE Filter(Tail(prev), id)

\* mutant of DeleteEntryUpdater: the answer of window.confirm ignored
DeleteEntryUnconfirmed(prev, id, confirmed) == Filter(prev, id)

\* handleDeleteEntry's effect on the list, given the answer of window.confirm
DeleteEntryUpdater(prev, id, confirmed) ==
    IF confirmed THEN Filter(prev, id) ELSE prev

\* an effect scheduled by a commit of App, tagged with what caused the commit
Effect(name, commit) == [effect |-> name, commit |-> commit]

\* mutant of MountEffects: the save effect declared before the load effect
MountEffectsSaveFirst == <<Effect("save", "mount"), Effect("load", "mount")>>

\* the effects of the first commit, in the order App declares them
MountEffects == <<Effect("load", "mount"), Effect("save", "mount")>>

\* mutant of EffectsAfter: the save effect without `entries` among its dependencies
EffectsAfterNone(commit) == <<>>

\* the effects of a commit in which `entries` is a new array
EffectsAfter(commit) == <<Effect("save", commit)>>

\* useEffect(() => { ... setEntries(JSON.parse(savedEntries)) ... }, [])
LoadEffect ==
    /\ pendingEffects # <<>>
    /\ Head(pendingEffects).effect = "load"
    /\ queuedEntries' =
         IF storage.present /\ storage.parseable
         THEN Some(JSONparse(storage.value))
         ELSE queuedEntries
    /\ pendingEffects' = Tail(pendingEffects)
    /\ lastCall' = Call("loadEffect")
    /\ UNCHANGED <<storage, savedEntriesAtMount>>
    /\ UNCHANGED <<appVars, styleVars, formVars, workspaceVars, parserVars>>

\* useEffect(() => { localStorage.setItem(...) }, [entries])
SaveEffect ==
    /\ pendingEffects # <<>>
    /\ Head(pendingEffects).effect = "save"
    /\ storage' = Item(JSONstringify(entries))
    /\ pendingEffects' = Tail(pendingEffects)
    /\ lastCall' = [op |-> "saveEffect", commit |-> Head(pendingEffects).commit]
    /\ UNCHANGED <<queuedEntries, savedEntriesAtMount>>
    /\ UNCHANGED <<appVars, styleVars, formVars, workspaceVars, parserVars>>

\* the render React runs for the setEntries(value) of the load effect, once the
\* effects of the commit before it have run
Render ==
    /\ pendingEffects = <<>>
    /\ queuedEntries # None
    /\ entries' = queuedEntries[1]
    /\ queuedEntries' = None
    /\ pendingEffects' = EffectsAfter("render")
    /\ lastCall' = Call("render")
    /\ UNCHANGED <<currentDraft, isFocusMode, storage, savedEntriesAtMount>>
    /\ UNCHANGED <<styleVars, formVars, workspaceVars, parserVars>>

\* App is mounted and React is idle: the effects of the last commit have run
\* (React runs them before it renders the next update) and no update is queued.
\* A handler step is the handler's call together with the render it causes;
\* updates batched into one render act as these steps in sequence, the updaters
\* being functions of the previous list.
Mounted ==
    /\ queuedEntries = None
    /\ pendingEffects = <<>>

\* what a call of handleSaveEntry does to App (the render it causes included)
SaveEntry(entry) ==
    /\ entries' = SaveEntryUpdater(entries, entry)
    /\ pendingEffects' = EffectsAfter("handleSaveEntry")

\* handleSaveEntry called with `entry`
handleSaveEntry(entry) ==
    /\ Mounted
    /\ SaveEntry(entry)
    /\ lastCall' = [op |-> "handleSaveEntry", entry |-> entry]
    /\ UNCHANGED <<currentDraft, isFocusMode, storage, queuedEntries, savedEntriesAtMount>>
    /\ UNCHANGED <<styleVars, formVars, workspaceVars, parserVars>>

\* handleDeleteEntry called with `id`; `confirmed` is what window.confirm returns
handleDeleteEntry(id, confirmed) ==
    /\ Mounted
    /\ entries' = DeleteEntryUpdater(entries, id, confirmed)
    /\ pendingEffects' = IF confirmed THEN EffectsAfter("handleDeleteEntry") ELSE pendingEffects
    /\ lastCall' = [op |-> "handleDeleteEntry", id |-> id, confirmed |-> confirmed]
    /\ UNCHANGED <<currentDraft, isFocusMode, storage, queuedEntries, savedEntriesAtMount>>
    /\ UNCHANGED <<styleVars, formVars, workspaceVars, parserVars>>

\* ---- the store driven through its two handlers ----
MaxIds == 3
EntryIds == {ToString(n) : n \in 1..MaxIds}
StyleConfig(family, size, level, grade) ==
    [fontFamily |-> family, fontSize |-> size, drawingLevel |-> level, writingGrade |-> grade]
\* entries as getCurrentEntry builds them; two per id, one without image
StoreEntry(id, image) ==
    [id |-> id, videoUrl |-> "url", videoId |-> "video",
     title |-> IF image = Undefined THEN <<Letter>> ELSE <<Letter, Letter>>,
     summary |-> <<Letter>>, favoriteScene |-> <<Letter>>, thoughts |-> <<Letter>>,
     generatedImageUrl |-> image,
     styleConfig |-> StyleConfig("basic", "medium", "low", 1),
     createdAt |-> 0]
StoreEntries == {StoreEntry(id, image) : id \in EntryIds, image \in {Undefined, "image"}}

\* what an earlier session of the App can have left in localStorage
StoredItems ==
    {NoItem, CorruptItem, Item(JSONstringify(<<>>)),
     Item(JSONstringify(<<StoreEntry("1", Undefined)>>)),
     Item(JSONstringify(<<StoreEntry("2", "image"), StoreEntry("1", Undefined)>>))}

InitStore ==
    /\ InitApp /\ InitStyle /\ InitForm /\ InitWorkspace /\ InitNoParse
    /\ storage \in StoredItems
    /\ savedEntriesAtMount = storage
    /\ pendingEffects = MountEffects
    /\ queuedEntries = None
    /\ lastCall = Call("mount")

NextStore ==
    \/ LoadEffect
    \/ SaveEffect
    \/ Render
    \/ \E entry \in StoreEntries : handleSaveEntry(entry)
    \/ \E id \in EntryIds, confirmed \in BOOLEAN : handleDeleteEntry(id, confirmed)

SpecStore == InitStore /\ [][NextStore]_vars

(***************************************************************************)
(* Claims about the entry store                                            *)
(***************************************************************************)
\* C1: no two entries of the list have the same id, after any sequence of
\* handleSaveEntry and handleDeleteEntry calls on a list that started so.
C1_IdsDistinct == DistinctIds(entries)

C1_Witness ==
    /\ lastCall.op = "handleSaveEntry"
    /\ Len(entries) = 3
    /\ entries[2] = lastCall.entry

\* what C2 says of the list after handleSaveEntry(e) on the list `prev`
Upserted(prev, e, next) ==
    IF e.id \in Ids(prev)
    THEN /\ Len(next) = Len(prev)
         /\ \A i \in 1..Len(prev) :
                /\ prev[i].id # e.id => next[i] = prev[i]
                /\ prev[i].id = e.id => next[i] = e
    ELSE /\ Len(next) = Len(prev) + 1
         /\ next[1] = e
         /\ \A i \in 1..Len(prev) : next[i + 1] = prev[i]

\* C2: handleSaveEntry(entry) replaces the entry that has entry.id where it is,
\* leaving length and every other entry alone, and otherwise puts the entry in
\* front of the previous entries.
C2_SaveIsUpsert ==
    [][lastCall'.op = "handleSaveEntry" => Upserted(entries, lastCall'.entry, entries')]_vars

C2_Witness ==
    /\ lastCall.op = "handleSaveEntry"
    /\ Len(entries) = 3
    /\ entries[3] = lastCall.entry
    /\ entries[1].generatedImageUrl # Undefined

\* C3: a confirmed handleDeleteEntry(id) leaves the entries with another id, in
\* their order, and none with that id; declined, or with an id no entry has, it
\* leaves the list as it was.
C3_DeleteRemovesOnlyThatId ==
    [][lastCall'.op = "handleDeleteEntry" =>
          LET id == lastCall'.id
              keep(e) == e.id # id
          IN /\ lastCall'.confirmed =>
                    /\ id \notin Ids(entries')
                    /\ entries' = SelectSeq(entries, keep)
             /\ ~lastCall'.confirmed \/ id \notin Ids(entries) => entries' = entries]_vars

C3_Witness ==
    /\ lastCall.op = "handleDeleteEntry"
    /\ lastCall.confirmed
    /\ Len(entries) = 2
    /\ Ids(entries) = EntryIds \ {lastCall.id}

\* C4: once the save effect has run for the last change of the list, the blob
\* in localStorage is the serialization of the list in memory.
C4_BlobIsSerializedList ==
    pendingEffects = <<>> => storage = Item(JSONstringify(entries))

C4_Witness ==
    /\ lastCall.op = "saveEffect"
    /\ lastCall.commit = "handleDeleteEntry"
    /\ pendingEffects = <<>>
    /\ Len(entries) = 2
    /\ storage.value = JSONstringify(entries)

\* the mount has completed: both mount effects and the render they asked for,
\* with its save effect, have run, and no handler has run since
MountCompleted ==
    /\ pendingEffects = <<>>
    /\ queuedEntries = None
    /\ lastCall.op = "saveEffect"
    /\ lastCall.commit \in {"mount", "render"}

\* C5: when a parseable blob of entries is stored at mount, then after the
\* mount both the list in memory and the blob are the stored list.
C5_MountRoundTrip ==
    MountCompleted /\ savedEntriesAtMount.present /\ savedEntriesAtMount.parseable =>
        /\ JSONstringify(entries) = savedEntriesAtMount.value
        /\ entries = JSONparse(savedEntriesAtMount.value)
        /\ storage = savedEntriesAtMount

C5_Witness ==
    /\ MountCompleted
    /\ savedEntriesAtMount.present /\ savedEntriesAtMount.parseable
    /\ Len(savedEntriesAtMount.value) = 2
    /\ Len(entries) = 2
    /\ storage = savedEntriesAtMount

(***************************************************************************)
(* The style state of App and the toggles of StoryForm                     *)
(***************************************************************************)
\* Array.prototype.indexOf, counting from 0, -1 when absent
IndexOf(list, v) ==
    IF \E i \in 1..Len(list) : list[i] = v
    THEN Min({i \in 1..Len(list) : list[i] = v}) - 1
    ELSE -1

\* mutant of NextInCycle: the last value does not wrap around
NextInCycleNoWrap(list, v) ==
    LET next == IndexOf(list, v) + 1
    IN list[(IF next >= Len(list) THEN Len(list) - 1 ELSE next) + 1]

\* list[(list.indexOf(v) + 1) % list.length]
NextInCycle(list, v) == list[((IndexOf(list, v) + 1) % Len(list)) + 1]

GradeCount == 6
\* (writingGrade % 6) + 1
NextGrade(grade) == (grade % GradeCount) + 1

toggleFontFamily ==
    /\ fontFamily' = NextInCycle(FontFamilies, fontFamily)
    /\ UNCHANGED <<fontSize, drawingLevel, writingGrade>>
    /\ lastCall' = Call("toggleFontFamily")
    /\ UNCHANGED <<appVars, runtimeVars, formVars, workspaceVars, parserVars, savedEntriesAtMount>>

\* mutant of toggleFontSize: a new size takes the font back to the basic one
toggleFontSizeResetsFamily ==
    /\ fontSize' = NextInCycle(FontSizes, fontSize)
    /\ fontFamily' = "basic"
    /\ UNCHANGED <<drawingLevel, writingGrade>>
    /\ lastCall' = Call("toggleFontSize")
    /\ UNCHANGED <<appVars, runtimeVars, formVars, workspaceVars, parserVars, savedEntriesAtMount>>

toggleFontSize ==
    /\ fontSize' = NextInCycle(FontSizes, fontSize)
    /\ UNCHANGED <<fontFamily, drawingLevel, writingGrade>>
    /\ lastCall' = Call("toggleFontSize")
    /\ UNCHANGED <<appVars, runtimeVars, formVars, workspaceVars, parserVars, savedEntriesAtMount>>

toggleDrawingLevel ==
    /\ drawingLevel' = NextInCycle(DrawingLevels, drawingLevel)
    /\ UNCHANGED <<fontFamily, fontSize, writingGrade>>
    /\ lastCall' = Call("toggleDrawingLevel")
    /\ UNCHANGED <<appVars, runtimeVars, formVars, workspaceVars, parserVars, savedEntriesAtMount>>

toggleWritingGrade ==
    /\ writingGrade' = NextGrade(writingGrade)
    /\ UNCHANGED <<fontFamily, fontSize, drawingLevel>>
    /\ lastCall' = Call("toggleWritingGrade")
    /\ UNCHANGED <<appVars, runtimeVars, formVars, workspaceVars, parserVars, savedEntriesAtMount>>

toggleFocusMode ==
    /\ isFocusMode' = ~isFocusMode
    /\ lastCall' = Call("toggleFocusMode")
    /\ UNCHANGED <<entries, currentDraft>>
    /\ UNCHANGED <<styleVars, runtimeVars, formVars, workspaceVars, parserVars, savedEntriesAtMount>>

InitToggles ==
    /\ InitApp /\ InitStyle /\ InitForm /\ InitWorkspace /\ InitNoParse /\ InitNoRuntime
    /\ lastCall = Call("init")

NextToggles ==
    \/ toggleFontFamily
    \/ toggleFontSize
    \/ toggleDrawingLevel
    \/ toggleWritingGrade
    \/ toggleFocusMode

SpecToggles == InitToggles /\ [][NextToggles]_vars

(***************************************************************************)
(* Claims about the style options                                          *)
(***************************************************************************)
RECURSIVE Times(_, _, _)
\* the value after n presses of the toggle that cycles `list`, from v
Times(list, n, v) == IF n = 0 THEN v ELSE Times(list, n - 1, NextInCycle(list, v))

RECURSIVE GradeTimes(_, _)
GradeTimes(n, g) == IF n = 0 THEN g ELSE GradeTimes(n - 1, NextGrade(g))

\* the successor of a value in the cyclic order written in C8
CyclicSuccessor(list, v) ==
    LET i == CHOOSE k \in 1..Len(list) : list[k] = v
    IN IF i = Len(list) THEN list[1] ELSE list[i + 1]

StyleInRange ==
    /\ fontFamily \in {"basic", "cute", "hand", "dongle", "gamja", "poor"}
    /\ fontSize \in {"x-small", "small", "medium", "large", "x-large"}
    /\ drawingLevel \in {"low", "medium", "high"}
    /\ writingGrade \in 1..6

ToggleStepsToNext ==
    /\ lastCall'.op = "toggleFontFamily" =>
           fontFamily' = CyclicSuccessor(<<"basic", "cute", "hand", "dongle", "gamja", "poor">>, fontFamily)
    /\ lastCall'.op = "toggleFontSize" =>
           fontSize' = CyclicSuccessor(<<"x-small", "small", "medium", "large", "x-large">>, fontSize)
    /\ lastCall'.op = "toggleDrawingLevel" =>
           drawingLevel' = CyclicSuccessor(<<"low", "medium", "high">>, drawingLevel)
    /\ lastCall'.op = "toggleWritingGrade" =>
           writingGrade' = IF writingGrade = 6 THEN 1 ELSE writingGrade + 1

FullCycleReturns ==
    /\ Times(FontFamilies, 6, fontFamily) = fontFamily
    /\ Times(FontSizes, 5, fontSize) = fontSize
    /\ Times(DrawingLevels, 3, drawingLevel) = drawingLevel
    /\ GradeTimes(6, writingGrade) = writingGrade
    /\ \A n \in 1..5 : Times(FontFamilies, n, fontFamily) # fontFamily
    /\ \A n \in 1..4 : Times(FontSizes, n, fontSize) # fontSize
    /\ \A n \in 1..2 : Times(DrawingLevels, n, drawingLevel) # drawingLevel
    /\ \A n \in 1..5 : GradeTimes(n, writingGrade) # writingGrade

\* C8: each toggle moves its option to the next value of its cyclic order (6 font
\* families, 5 font sizes, 3 drawing levels, grades 1..6), the value stays in
\* its set, and as many presses as the set has values return to the start.
C8_TogglesCycle ==
    /\ [](StyleInRange /\ FullCycleReturns)
    /\ [][ToggleStepsToNext]_vars

C8_Witness ==
    /\ lastCall.op = "toggleFontFamily"
    /\ fontFamily = "basic"
    /\ fontSize = "x-small"
    /\ drawingLevel = "high"
    /\ writingGrade = 6

(***************************************************************************)
(* StoryForm: the link, handleAnalyze, and what App and StoryWorkspace do  *)
(* when the analysis completes                                             *)
(***************************************************************************)
\* links the user can type: none, one that is no YouTube link, a YouTube link
Urls == {"", "plain link", "youtube link"}
\* extractYouTubeId of utils: the video id of a YouTube link, null otherwise
extractYouTubeId(u) ==
    IF u = "youtube link" THEN "video"
    ELSE IF u = "other youtube link" THEN "other video"
    ELSE Null

EnterLinkMessage == "(enter a YouTube link)"
InvalidLinkMessage == "(not a valid YouTube link)"
ApiKeyMessage == "API Key not found"
AnalyzeFailedMessage == "(the AI had a problem analysing the story)"
DrawFailedMessage == "(an error occurred while drawing)"
NeedSceneMessage == "(a scene or a summary is needed to draw)"
NoSummaryMessage == "(there is no summary to read)"
PlayFailedMessage == "(reading aloud failed)"
SaveFailedMessage == "(saving the image failed)"

\* what the promise of analyzeStoryLink can reject with: getClient throws
\* outside the try block, everything else is rethrown with the fixed message
AnalyzeErrors == {ApiKeyMessage, AnalyzeFailedMessage}
\* the same for generateSceneImage
DrawErrors == {ApiKeyMessage, DrawFailedMessage}

\* onChange of the link input
setUrl(u) ==
    /\ url' = u
    /\ url # u
    /\ lastCall' = Call("setUrl")
    /\ UNCHANGED <<isAnalyzing, formError, analyzeCall>>
    /\ UNCHANGED <<appVars, styleVars, runtimeVars, workspaceVars, parserVars, savedEntriesAtMount>>

\* the analyze button is enabled: disabled={isAnalyzing || !url}
AnalyzeEnabled == ~isAnalyzing /\ url # ""

\* mutant of handleAnalyze: the video id is not looked at
handleAnalyzeUnvalidated ==
    /\ AnalyzeEnabled
    /\ isAnalyzing' = TRUE
    /\ formError' = Null
    /\ analyzeCall' = Some([url |-> url, videoId |-> extractYouTubeId(url),
                            writingGrade |-> writingGrade])
    /\ lastCall' = Call("handleAnalyze")
    /\ UNCHANGED url
    /\ UNCHANGED <<appVars, styleVars, runtimeVars, workspaceVars, parserVars, savedEntriesAtMount>>

\* handleAnalyze up to its await
handleAnalyze ==
    /\ AnalyzeEnabled
    /\ IF url = ""
       THEN /\ formError' = EnterLinkMessage
            /\ UNCHANGED <<isAnalyzing, analyzeCall>>
       ELSE IF extractYouTubeId(url) = Null
       THEN /\ formError' = InvalidLinkMessage
            /\ UNCHANGED <<isAnalyzing, analyzeCall>>
       ELSE /\ isAnalyzing' = TRUE
            /\ formError' = Null
            /\ analyzeCall' = Some([url |-> url, videoId |-> extractYouTubeId(url),
                                    writingGrade |-> writingGrade])
    /\ lastCall' = Call("handleAnalyze")
    /\ UNCHANGED url
    /\ UNCHANGED <<appVars, styleVars, runtimeVars, workspaceVars, parserVars, savedEntriesAtMount>>

\* stopAudio: stop() of the source held in the ref queues its ended event,
\* close() of the context held in the ref silences what sounds in it
stopAudio ==
    /\ endedPending' = (endedPending \/ (sourceNodeRef # Null /\ playingSource))
    /\ sourceNodeRef' = Null
    /\ playingSource' = (playingSource /\ sourceNodeRef = Null /\ audioContextRef = Null)
    /\ audioContextRef' = Null
    /\ isSpeakingSummary' = FALSE

\* mutant of InitialDataEffect: the drawn image and the preview survive
InitialDataEffectKeepsImage(draft) ==
    /\ title' = draft.analysis.title
    /\ summary' = draft.analysis.summary
    /\ favoriteScene' = draft.analysis.recommendedScene
    /\ thoughts' = draft.analysis.recommendedThoughts
    /\ UNCHANGED generatedImage
    /\ loadedId' = Null
    /\ loadedVideoUrl' = draft.url
    /\ loadedVideoId' = draft.videoId
    /\ workspaceError' = Null
    /\ UNCHANGED isPreviewMode
    /\ stopAudio

\* the effect of StoryWorkspace on a new initialData
InitialDataEffect(draft) ==
    /\ title' = draft.analysis.title
    /\ summary' = draft.analysis.summary
    /\ favoriteScene' = draft.analysis.recommendedScene
    /\ thoughts' = draft.analysis.recommendedThoughts
    /\ generatedImage' = Null
    /\ loadedId' = Null
    /\ loadedVideoUrl' = draft.url
    /\ loadedVideoId' = draft.videoId
    /\ workspaceError' = Null
    /\ isPreviewMode' = FALSE
    /\ stopAudio

\* mutant of handleAnalysisComplete: the writing grade is reset as well
handleAnalysisCompleteResetsGrade(videoId, u, result) ==
    /\ currentDraft' = Some([videoId |-> videoId, url |-> u, analysis |-> result])
    /\ fontFamily' = "basic"
    /\ fontSize' = "medium"
    /\ drawingLevel' = "low"
    /\ writingGrade' = 1
    /\ InitialDataEffect([videoId |-> videoId, url |-> u, analysis |-> result])

\* handleAnalysisComplete, and the render and initialData effect it causes
handleAnalysisComplete(videoId, u, result) ==
    /\ currentDraft' = Some([videoId |-> videoId, url |-> u, analysis |-> result])
    /\ fontFamily' = "basic"
    /\ fontSize' = "medium"
    /\ drawingLevel' = "low"
    /\ UNCHANGED writingGrade
    /\ InitialDataEffect([videoId |-> videoId, url |-> u, analysis |-> result])

\* handleAnalyze after its await: analyzeStoryLink resolved, the API having
\* answered `text`
handleAnalyzeResolved(text) ==
    /\ analyzeCall # None
    /\ handleAnalysisComplete(analyzeCall[1].videoId, analyzeCall[1].url,
                              ParseAnalysis(text, EmptyString))
    /\ isAnalyzing' = FALSE
    /\ analyzeCall' = None
    /\ lastCall' = Call("handleAnalyze.resolved")
    /\ UNCHANGED <<url, formError, entries, isFocusMode>>
    /\ UNCHANGED <<isDrawing, isSavingImage, isGeneratingSummarySpeech, speechCall, callVars>>
    /\ UNCHANGED <<runtimeVars, parserVars, savedEntriesAtMount>>

\* mutant of handleAnalyzeRejected: the catch does not set the message
handleAnalyzeRejectedSilently(message) ==
    /\ analyzeCall # None
    /\ isAnalyzing' = FALSE
    /\ analyzeCall' = None
    /\ lastCall' = Call("handleAnalyze.rejected")
    /\ UNCHANGED <<url, formError>>
    /\ UNCHANGED <<appVars, styleVars, runtimeVars, workspaceVars, parserVars, savedEntriesAtMount>>

\* handleAnalyze after its await: analyzeStoryLink rejected
handleAnalyzeRejected(message) ==
    /\ analyzeCall # None
    /\ formError' = message
    /\ isAnalyzing' = FALSE
    /\ analyzeCall' = None
    /\ lastCall' = Call("handleAnalyze.rejected")
    /\ UNCHANGED url
    /\ UNCHANGED <<appVars, styleVars, runtimeVars, workspaceVars, parserVars, savedEntriesAtMount>>

(***************************************************************************)
(* StoryWorkspace: the editor, drawing, reading aloud, preview and export  *)
(***************************************************************************)
\* the workspace shows the editor instead of its placeholder
hasContent == currentDraft # None \/ loadedId # Null
\* the editor and its buttons are rendered only outside the preview
Editing == hasContent /\ ~isPreviewMode

\* what the user types into a field
TypedTexts == {EmptyString, Str(Letter)}
\* images the image model answers with
GeneratedImages == {"data:image/png;base64,scene"}

UNCHANGED_outsideWorkspace ==
    UNCHANGED <<appVars, styleVars, runtimeVars, formVars, parserVars, savedEntriesAtMount>>

\* onChange of the four text fields
setTitle(v) ==
    /\ Editing /\ title # v
    /\ title' = v
    /\ lastCall' = Call("setTitle")
    /\ UNCHANGED <<summary, favoriteScene, thoughts, generatedImage>>
    /\ UNCHANGED <<flagVars, audioVars, loadedVars, callVars>>
    /\ UNCHANGED_outsideWorkspace

setSummary(v) ==
    /\ Editing /\ summary # v
    /\ summary' = v
    /\ lastCall' = Call("setSummary")
    /\ UNCHANGED <<title, favoriteScene, thoughts, generatedImage>>
    /\ UNCHANGED <<flagVars, audioVars, loadedVars, callVars>>
    /\ UNCHANGED_outsideWorkspace

setFavoriteScene(v) ==
    /\ Editing /\ favoriteScene # v
    /\ favoriteScene' = v
    /\ lastCall' = Call("setFavoriteScene")
    /\ UNCHANGED <<title, summary, thoughts, generatedImage>>
    /\ UNCHANGED <<flagVars, audioVars, loadedVars, callVars>>
    /\ UNCHANGED_outsideWorkspace

setThoughts(v) ==
    /\ Editing /\ thoughts # v
    /\ thoughts' = v
    /\ lastCall' = Call("setThoughts")
    /\ UNCHANGED <<title, summary, favoriteScene, generatedImage>>
    /\ UNCHANGED <<flagVars, audioVars, loadedVars, callVars>>
    /\ UNCHANGED_outsideWorkspace

\* the button on the drawn image that removes it
removeImage ==
    /\ Editing /\ generatedImage # Null
    /\ generatedImage' = Null
    /\ lastCall' = Call("removeImage")
    /\ UNCHANGED <<title, summary, favoriteScene, thoughts>>
    /\ UNCHANGED <<flagVars, audioVars, loadedVars, callVars>>
    /\ UNCHANGED_outsideWorkspace

\* mutant of setIsPreviewMode: going to the preview or back drops the image
setIsPreviewModeDropsImage(b) ==
    /\ hasContent /\ isPreviewMode # b
    /\ isPreviewMode' = b
    /\ generatedImage' = Null
    /\ lastCall' = Call("setIsPreviewMode")
    /\ UNCHANGED <<isDrawing, isSavingImage, workspaceError>>
    /\ UNCHANGED <<title, summary, favoriteScene, thoughts, audioVars, loadedVars, callVars>>
    /\ UNCHANGED_outsideWorkspace

\* the preview button, and "edit again" of the preview
setIsPreviewMode(b) ==
    /\ hasContent /\ isPreviewMode # b
    /\ isPreviewMode' = b
    /\ lastCall' = Call("setIsPreviewMode")
    /\ UNCHANGED <<isDrawing, isSavingImage, workspaceError>>
    /\ UNCHANGED <<fieldVars, audioVars, loadedVars, callVars>>
    /\ UNCHANGED_outsideWorkspace

\* mutant of handleDrawScene: the request is issued without looking at the
\* scene and the summary
handleDrawSceneUnchecked ==
    /\ Editing /\ ~isDrawing
    /\ isDrawing' = TRUE
    /\ workspaceError' = Null
    /\ drawCall' = Some([scene |-> favoriteScene, title |-> title,
                         summary |-> summary, level |-> drawingLevel,
                         initialData |-> currentDraft])
    /\ lastCall' = Call("handleDrawScene")
    /\ UNCHANGED <<isSavingImage, isPreviewMode, exportCall>>
    /\ UNCHANGED <<fieldVars, audioVars, loadedVars>>
    /\ UNCHANGED_outsideWorkspace

\* handleDrawScene up to its await; the run closes over the render it was
\* called in: the fields, the drawing level and the initialData prop
handleDrawScene ==
    /\ Editing /\ ~isDrawing
    /\ IF ~Truthy(favoriteScene) /\ ~Truthy(summary)
       THEN /\ workspaceError' = NeedSceneMessage
            /\ UNCHANGED <<isDrawing, drawCall>>
       ELSE /\ isDrawing' = TRUE
            /\ workspaceError' = Null
            /\ drawCall' = Some([scene |-> favoriteScene, title |-> title,
                                 summary |-> summary, level |-> drawingLevel,
                                 initialData |-> currentDraft])
    /\ lastCall' = Call("handleDrawScene")
    /\ UNCHANGED <<isSavingImage, isPreviewMode, exportCall>>
    /\ UNCHANGED <<fieldVars, audioVars, loadedVars>>
    /\ UNCHANGED_outsideWorkspace

\* handleDrawScene after its await: generateSceneImage resolved
handleDrawSceneResolved(image) ==
    /\ drawCall # None
    /\ generatedImage' = image
    /\ isDrawing' = FALSE
    /\ drawCall' = None
    /\ lastCall' = Call("handleDrawScene.resolved")
    /\ UNCHANGED <<title, summary, favoriteScene, thoughts>>
    /\ UNCHANGED <<isSavingImage, workspaceError, isPreviewMode, exportCall>>
    /\ UNCHANGED <<audioVars, loadedVars>>
    /\ UNCHANGED_outsideWorkspace

\* mutant of handleDrawSceneRejected: no finally that clears the flag
handleDrawSceneRejectedNoFinally(message) ==
    /\ drawCall # None
    /\ workspaceError' = message
    /\ isDrawing' = TRUE
    /\ drawCall' = None
    /\ lastCall' = Call("handleDrawScene.rejected")
    /\ UNCHANGED <<isSavingImage, isPreviewMode, exportCall>>
    /\ UNCHANGED <<fieldVars, audioVars, loadedVars>>
    /\ UNCHANGED_outsideWorkspace

\* handleDrawScene after its await: generateSceneImage rejected
handleDrawSceneRejected(message) ==
    /\ drawCall # None
    /\ workspaceError' = message
    /\ isDrawing' = FALSE
    /\ drawCall' = None
    /\ lastCall' = Call("handleDrawScene.rejected")
    /\ UNCHANGED <<isSavingImage, isPreviewMode, exportCall>>
    /\ UNCHANGED <<fieldVars, audioVars, loadedVars>>
    /\ UNCHANGED_outsideWorkspace

\* mutant of handlePlaySummary: no toggle, a click while the summary is read
\* asks for the speech again
handlePlaySummaryNoToggle ==
    /\ Editing /\ ~isGeneratingSummarySpeech
    /\ IF ~Truthy(summary)
       THEN /\ workspaceError' = NoSummaryMessage
            /\ UNCHANGED <<isGeneratingSummarySpeech, speechCall>>
       ELSE /\ isGeneratingSummarySpeech' = TRUE
            /\ workspaceError' = Null
            /\ speechCall' = Some([summary |-> summary, awaiting |-> "generateStorySpeech"])
    /\ lastCall' = Call("handlePlaySummary")
    /\ UNCHANGED <<isSpeakingSummary, audioContextRef, sourceNodeRef, playingSource, endedPending>>
    /\ UNCHANGED <<isDrawing, isSavingImage, isPreviewMode>>
    /\ UNCHANGED <<fieldVars, loadedVars, callVars>>
    /\ UNCHANGED_outsideWorkspace

\* handlePlaySummary up to its first await
handlePlaySummary ==
    /\ Editing /\ ~isGeneratingSummarySpeech
    /\ IF isSpeakingSummary
       THEN /\ stopAudio
            /\ UNCHANGED <<workspaceError, isGeneratingSummarySpeech, speechCall>>
       ELSE IF ~Truthy(summary)
       THEN /\ workspaceError' = NoSummaryMessage
            /\ UNCHANGED <<isSpeakingSummary, isGeneratingSummarySpeech,
                           audioContextRef, sourceNodeRef, playingSource, endedPending,
                           speechCall>>
       ELSE /\ isGeneratingSummarySpeech' = TRUE
            /\ workspaceError' = Null
            /\ speechCall' = Some([summary |-> summary, awaiting |-> "generateStorySpeech"])
            /\ UNCHANGED <<isSpeakingSummary, audioContextRef, sourceNodeRef,
                           playingSource, endedPending>>
    /\ lastCall' = Call("handlePlaySummary")
    /\ UNCHANGED <<isDrawing, isSavingImage, isPreviewMode>>
    /\ UNCHANGED <<fieldVars, loadedVars, callVars>>
    /\ UNCHANGED_outsideWorkspace

\* handlePlaySummary from the speech to the decoding: the old context is
\* closed, the new one is stored in the ref
handlePlaySummarySpeechResolved ==
    /\ speechCall # None
    /\ speechCall[1].awaiting = "generateStorySpeech"
    /\ playingSource' = (playingSource /\ audioContextRef = Null)
    /\ audioContextRef' = "context"
    /\ speechCall' = Some([speechCall[1] EXCEPT !.awaiting = "decodeAudioData"])
    /\ lastCall' = Call("handlePlaySummary.speech")
    /\ UNCHANGED <<isSpeakingSummary, isGeneratingSummarySpeech, sourceNodeRef, endedPending>>
    /\ UNCHANGED <<fieldVars, flagVars, loadedVars, callVars>>
    /\ UNCHANGED_outsideWorkspace

\* handlePlaySummary after the decoding: the source starts
handlePlaySummaryResolved ==
    /\ speechCall # None
    /\ speechCall[1].awaiting = "decodeAudioData"
    /\ sourceNodeRef' = "source"
    /\ playingSource' = TRUE
    /\ isSpeakingSummary' = TRUE
    /\ isGeneratingSummarySpeech' = FALSE
    /\ speechCall' = None
    /\ lastCall' = Call("handlePlaySummary.resolved")
    /\ UNCHANGED <<audioContextRef, endedPending>>
    /\ UNCHANGED <<fieldVars, flagVars, loadedVars, callVars>>
    /\ UNCHANGED_outsideWorkspace

\* handlePlaySummary when one of its awaits rejects
handlePlaySummaryRejected ==
    /\ speechCall # None
    /\ workspaceError' = PlayFailedMessage
    /\ stopAudio
    /\ isGeneratingSummarySpeech' = FALSE
    /\ speechCall' = None
    /\ lastCall' = Call("handlePlaySummary.rejected")
    /\ UNCHANGED <<isDrawing, isSavingImage, isPreviewMode>>
    /\ UNCHANGED <<fieldVars, loadedVars, callVars>>
    /\ UNCHANGED_outsideWorkspace

\* source.onended when the playing source runs to its end
onended ==
    /\ playingSource
    /\ playingSource' = FALSE
    /\ isSpeakingSummary' = FALSE
    /\ sourceNodeRef' = Null
    /\ lastCall' = Call("onended")
    /\ UNCHANGED <<isGeneratingSummarySpeech, audioContextRef, endedPending, speechCall>>
    /\ UNCHANGED <<fieldVars, flagVars, loadedVars, callVars>>
    /\ UNCHANGED_outsideWorkspace

\* source.onended of a source that stop() has stopped: the event is
\* dispatched some time after the stop
onendedOfStopped ==
    /\ endedPending
    /\ endedPending' = FALSE
    /\ isSpeakingSummary' = FALSE
    /\ sourceNodeRef' = Null
    /\ lastCall' = Call("onended")
    /\ UNCHANGED <<isGeneratingSummarySpeech, audioContextRef, playingSource, speechCall>>
    /\ UNCHANGED <<fieldVars, flagVars, loadedVars, callVars>>
    /\ UNCHANGED_outsideWorkspace

\* a || b on strings
Or(a, b) == IF Truthy(a) THEN a ELSE b
ImaginedSceneText == <<"(the AI imagined this scene from the summary)">>
NoTitleText == <<"(no title)">>
NoSummaryText == <<"(no summary)">>
NoContentText == <<"(no content)">>
\* Date.now(); the model does not follow the clock
Now == 0

\* mutant of CurrentStyleConfig: the style the App starts with
InitialStyleConfig == StyleConfig("basic", "medium", "low", 1)

\* the styleConfig getCurrentEntry builds from the props of its render
CurrentStyleConfig == StyleConfig(fontFamily, fontSize, drawingLevel, writingGrade)

\* the state and props a handler created by the current render closes over
RenderClosure ==
    [title |-> title, summary |-> summary, favoriteScene |-> favoriteScene,
     thoughts |-> thoughts, generatedImage |-> generatedImage,
     loadedId |-> loadedId, loadedVideoUrl |-> loadedVideoUrl,
     loadedVideoId |-> loadedVideoId, styleConfig |-> CurrentStyleConfig]

\* mutant of getCurrentEntry: the id is always a new one
getCurrentEntryNewId(c, newId) ==
    LET finalSceneText ==
            IF ~Truthy(c.favoriteScene) /\ c.generatedImage # Null
            THEN ImaginedSceneText ELSE c.favoriteScene
    IN  [id |-> newId,
         videoUrl |-> c.loadedVideoUrl,
         videoId |-> c.loadedVideoId,
         title |-> Or(c.title, NoTitleText),
         summary |-> Or(c.summary, NoSummaryText),
         favoriteScene |-> Or(finalSceneText, NoContentText),
         thoughts |-> Or(c.thoughts, NoContentText),
         generatedImageUrl |-> IF c.generatedImage # Null THEN c.generatedImage ELSE Undefined,
         styleConfig |-> c.styleConfig,
         createdAt |-> Now]

\* mutant of getCurrentEntry: an empty scene gets the generic placeholder
\* also when there is a drawn image
getCurrentEntryGenericScene(c, newId) ==
    [id |-> IF c.loadedId # Null THEN c.loadedId ELSE newId,
     videoUrl |-> c.loadedVideoUrl,
     videoId |-> c.loadedVideoId,
     title |-> Or(c.title, NoTitleText),
     summary |-> Or(c.summary, NoSummaryText),
     favoriteScene |-> Or(c.favoriteScene, NoContentText),
     thoughts |-> Or(c.thoughts, NoContentText),
     generatedImageUrl |-> IF c.generatedImage # Null THEN c.generatedImage ELSE Undefined,
     styleConfig |-> c.styleConfig,
     createdAt |-> Now]

\* getCurrentEntry of the render with closure c, generateId answering newId
getCurrentEntry(c, newId) ==
    LET finalSceneText ==
            IF ~Truthy(c.favoriteScene) /\ c.generatedImage # Null
            THEN ImaginedSceneText ELSE c.favoriteScene
    IN  [id |-> IF c.loadedId # Null THEN c.loadedId ELSE newId,
         videoUrl |-> c.loadedVideoUrl,
         videoId |-> c.loadedVideoId,
         title |-> Or(c.title, NoTitleText),
         summary |-> Or(c.summary, NoSummaryText),
         favoriteScene |-> Or(finalSceneText, NoContentText),
         thoughts |-> Or(c.thoughts, NoContentText),
         generatedImageUrl |-> IF c.generatedImage # Null THEN c.generatedImage ELSE Undefined,
         styleConfig |-> c.styleConfig,
         createdAt |-> Now]

\* the name of the downloaded file, without its extension
DefaultFileName == <<"(book report)">>
DownloadName(c) == Or(c.title, DefaultFileName)

\* mutant of handleDownloadImage: the save button of the preview is not
\* disabled while an export runs
handleDownloadImageFromPreview ==
    /\ hasContent /\ (~isSavingImage \/ isPreviewMode)
    /\ isSavingImage' = TRUE
    /\ exportCall' = Some(RenderClosure)
    /\ lastCall' = Call("handleDownloadImage")
    /\ UNCHANGED <<isDrawing, workspaceError, isPreviewMode, drawCall>>
    /\ UNCHANGED <<fieldVars, audioVars, loadedVars>>
    /\ UNCHANGED_outsideWorkspace

\* handleDownloadImage up to its await: the save buttons of the editor and of
\* the preview
handleDownloadImage ==
    /\ hasContent /\ ~isSavingImage
    /\ isSavingImage' = TRUE
    /\ exportCall' = Some(RenderClosure)
    /\ lastCall' = Call("handleDownloadImage")
    /\ UNCHANGED <<isDrawing, workspaceError, isPreviewMode, drawCall>>
    /\ UNCHANGED <<fieldVars, audioVars, loadedVars>>
    /\ UNCHANGED_outsideWorkspace

\* handleDownloadImage after its await: the canvas is there, the file is
\* downloaded, onSave gets getCurrentEntry()
handleDownloadImageResolved(newId) ==
    /\ exportCall # None
    /\ Mounted
    /\ SaveEntry(getCurrentEntry(exportCall[1], newId))
    /\ isSavingImage' = FALSE
    /\ exportCall' = None
    /\ lastCall' = [op |-> "handleDownloadImage.resolved",
                    file |-> DownloadName(exportCall[1]),
                    onSave |-> <<getCurrentEntry(exportCall[1], newId)>>,
                    entry |-> getCurrentEntry(exportCall[1], newId),
                    closure |-> exportCall[1]]
    /\ UNCHANGED <<currentDraft, isFocusMode, storage, queuedEntries, savedEntriesAtMount>>
    /\ UNCHANGED <<isDrawing, workspaceError, isPreviewMode, drawCall>>
    /\ UNCHANGED <<fieldVars, audioVars, loadedVars>>
    /\ UNCHANGED <<styleVars, formVars, parserVars>>

\* why an export fails: html2canvas rejects or toDataURL throws, or there is
\* no canvas
ExportFailures == {"no canvas", "thrown"}

\* mutant of handleDownloadImageFailed: onSave is called before the canvas is
\* looked at
handleDownloadImageFailedAfterSave(cause) ==
    /\ exportCall # None
    /\ Mounted
    /\ SaveEntry(getCurrentEntry(exportCall[1], "1"))
    /\ workspaceError' = SaveFailedMessage
    /\ isSavingImage' = FALSE
    /\ exportCall' = None
    /\ lastCall' = [op |-> "handleDownloadImage.failed", cause |-> cause]
    /\ UNCHANGED <<currentDraft, isFocusMode, storage, queuedEntries, savedEntriesAtMount>>
    /\ UNCHANGED <<isDrawing, isPreviewMode, drawCall>>
    /\ UNCHANGED <<fieldVars, audioVars, loadedVars>>
    /\ UNCHANGED <<styleVars, formVars, parserVars>>

\* handleDownloadImage after its await, when the export fails
handleDownloadImageFailed(cause) ==
    /\ exportCall # None
    /\ workspaceError' = SaveFailedMessage
    /\ isSavingImage' = FALSE
    /\ exportCall' = None
    /\ lastCall' = [op |-> "handleDownloadImage.failed", cause |-> cause]
    /\ UNCHANGED <<isDrawing, isPreviewMode, drawCall>>
    /\ UNCHANGED <<fieldVars, audioVars, loadedVars>>
    /\ UNCHANGED_outsideWorkspace

(***************************************************************************)
(* The App after its mount on an empty localStorage, with form and         *)
(* workspace                                                               *)
(***************************************************************************)
\* how many entries the library takes before the save buttons are left alone
MaxSaved == 1
\* how far from its first option each style option is toggled
MaxStyleSteps == 1

\* the number of toggles that take an option from `first` to v
StepsFrom(list, first, v) ==
    (IndexOf(list, v) - IndexOf(list, first) + Len(list)) % Len(list)

InitWorkspaceApp ==
    /\ InitStyle /\ InitApp /\ InitForm /\ InitWorkspace /\ InitNoParse
    /\ storage = Item(JSONstringify(<<>>))
    /\ savedEntriesAtMount = NoItem
    /\ pendingEffects = <<>>
    /\ queuedEntries = None
    /\ lastCall = Call("mount")

\* a formatted response
FormattedText ==
    <<TitleLabel, Space, Letter, Newline, SummaryLabel, Space, Letter, Newline,
      SceneLabel, Space, Letter, Newline, ThoughtsLabel, Space, Letter>>
\* ids generateId answers with
GeneratedIds == {"1", "2"}

\* the style toggles, each option at most MaxStyleSteps toggles from the
\* value the App starts with
BoundedToggles ==
    \/ (StepsFrom(FontFamilies, "basic", fontFamily) < MaxStyleSteps /\ toggleFontFamily)
    \/ (StepsFrom(FontSizes, "medium", fontSize) < MaxStyleSteps /\ toggleFontSize)
    \/ (StepsFrom(DrawingLevels, "low", drawingLevel) < MaxStyleSteps /\ toggleDrawingLevel)
    \/ (writingGrade - 1 < MaxStyleSteps /\ toggleWritingGrade)

\* analysis, style, preview and export
NextExport ==
    \/ setUrl("youtube link")
    \/ handleAnalyze
    \/ handleAnalyzeResolved(FormattedText)
    \/ BoundedToggles
    \/ \E b \in BOOLEAN : setIsPreviewMode(b)
    \/ (Len(entries) < MaxSaved /\ handleDownloadImage)
    \/ \E newId \in GeneratedIds : handleDownloadImageResolved(newId)
    \/ \E cause \in ExportFailures : handleDownloadImageFailed(cause)
    \/ SaveEffect

SpecExport == InitWorkspaceApp /\ [][NextExport]_vars

\* the four asynchronous handlers with their failures
NextFailures ==
    \/ \E u \in Urls : setUrl(u)
    \/ handleAnalyze
    \/ handleAnalyzeResolved(FormattedText)
    \/ \E message \in AnalyzeErrors : handleAnalyzeRejected(message)
    \/ handleDrawScene
    \/ \E image \in GeneratedImages : handleDrawSceneResolved(image)
    \/ \E message \in DrawErrors : handleDrawSceneRejected(message)
    \/ handlePlaySummary
    \/ handlePlaySummarySpeechResolved
    \/ handlePlaySummaryResolved
    \/ handlePlaySummaryRejected
    \/ onended
    \/ (Len(entries) < MaxSaved /\ handleDownloadImage)
    \/ \E newId \in GeneratedIds : handleDownloadImageResolved(newId)
    \/ \E cause \in ExportFailures : handleDownloadImageFailed(cause)
    \/ SaveEffect

SpecFailures == InitWorkspaceApp /\ [][NextFailures]_vars

(***************************************************************************)
(* Claims about the export and about failures                              *)
(***************************************************************************)
ToggleOps == {"toggleFontFamily", "toggleFontSize", "toggleDrawingLevel", "toggleWritingGrade"}

\* the save button was pressed in this step
ExportStarts == lastCall'.op = "handleDownloadImage"
\* an export hands its entry to onSave in this step
ExportSaves == lastCall'.op = "handleDownloadImage.resolved"

\* C9: the entry a successful export hands to onSave carries as styleConfig
\* the four style values the App held when the export was started, the entry
\* is in the library afterwards, and no other step, a style toggle least of
\* all, changes the library.
C9_StyleCarriedIntoExport ==
    [][/\ ExportStarts =>
            exportCall'[1].styleConfig =
                StyleConfig(fontFamily, fontSize, drawingLevel, writingGrade)
       /\ ExportSaves =>
            /\ lastCall'.entry.styleConfig = exportCall[1].styleConfig
            /\ \E i \in 1..Len(entries') : entries'[i] = lastCall'.entry
       /\ ~ExportSaves => entries' = entries]_vars

\* a style option was toggled after an export, and the saved entry keeps the
\* style of its export, which is not the style the App starts with
C9_Witness ==
    /\ lastCall.op \in ToggleOps
    /\ entries # <<>>
    /\ entries[1].styleConfig # StyleConfig(fontFamily, fontSize, drawingLevel, writingGrade)
    /\ entries[1].styleConfig # StyleConfig("basic", "medium", "low", 1)

\* each busy flag is set exactly while a call of its handler is in flight
FlagsFollowCalls ==
    /\ isAnalyzing <=> analyzeCall # None
    /\ isDrawing <=> drawCall # None
    /\ isGeneratingSummarySpeech <=> speechCall # None
    /\ isSavingImage <=> exportCall # None

\* C10: a failure of each of the four asynchronous handlers is caught: the
\* step sets the handler's error message, clears the handler's busy flag and
\* its call, and leaves alone what a success would have produced (the draft
\* and the fields, the image, the library and its blob); a failed reading
\* leaves nothing speaking. It starts no other call: every busy flag is set
\* exactly while its handler's call is in flight.
C10_FailuresCaughtAndShown ==
    /\ []FlagsFollowCalls
    /\ [][/\ lastCall'.op = "handleAnalyze.rejected" =>
                /\ formError' \in AnalyzeErrors
                /\ ~isAnalyzing'
                /\ UNCHANGED <<currentDraft, workspaceVars, entries, storage>>
          /\ lastCall'.op = "handleDrawScene.rejected" =>
                /\ workspaceError' \in DrawErrors
                /\ ~isDrawing'
                /\ UNCHANGED <<generatedImage, formVars, entries, storage>>
          /\ lastCall'.op = "handlePlaySummary.rejected" =>
                /\ workspaceError' = PlayFailedMessage
                /\ ~isGeneratingSummarySpeech'
                /\ ~isSpeakingSummary' /\ sourceNodeRef' = Null
                /\ UNCHANGED <<fieldVars, formVars, entries, storage>>
          /\ lastCall'.op = "handleDownloadImage.failed" =>
                /\ workspaceError' = SaveFailedMessage
                /\ ~isSavingImage'
                /\ UNCHANGED <<entries, storage, pendingEffects, fieldVars, formVars>>]_vars

\* an export failed after a later analysis had failed: both messages show
C10_Witness ==
    /\ lastCall.op = "handleDownloadImage.failed"
    /\ workspaceError = SaveFailedMessage
    /\ formError \in AnalyzeErrors
    /\ ~isSavingImage /\ ~isAnalyzing

(***************************************************************************)
(* The editor: analysis, the fields, preview, drawing and reading aloud    *)
(***************************************************************************)
\* response texts the API answers an analysis with: nothing to extract, and
\* a text in the prompted format
AnalysisTexts == {EmptyString, FormattedText}

NextEditor ==
    \/ setUrl("youtube link")
    \/ handleAnalyze
    \/ \E text \in AnalysisTexts : handleAnalyzeResolved(text)
    \/ \E v \in TypedTexts : setTitle(v)
    \/ \E v \in TypedTexts : setSummary(v)
    \/ \E v \in TypedTexts : setFavoriteScene(v)
    \/ \E v \in TypedTexts : setThoughts(v)
    \/ removeImage
    \/ \E b \in BOOLEAN : setIsPreviewMode(b)
    \/ handleDrawScene
    \/ \E image \in GeneratedImages : handleDrawSceneResolved(image)
    \/ \E message \in DrawErrors : handleDrawSceneRejected(message)
    \/ handlePlaySummary
    \/ handlePlaySummarySpeechResolved
    \/ handlePlaySummaryResolved
    \/ handlePlaySummaryRejected
    \/ onended

SpecEditor == InitWorkspaceApp /\ [][NextEditor]_vars

\* a new analysis result arrives as initialData in this step
DraftArrives == lastCall'.op = "handleAnalyze.resolved"

\* C11: when a new analysis result arrives as initialData, whatever the
\* workspace held before, the four fields are the four analysis fields, the
\* video url and id are the draft's, there is no image and no loaded id, the
\* error is cleared, the preview is off and nothing plays.
C11_DraftBoundToFields ==
    [][DraftArrives =>
        /\ currentDraft' # None
        /\ title' = currentDraft'[1].analysis.title
        /\ summary' = currentDraft'[1].analysis.summary
        /\ favoriteScene' = currentDraft'[1].analysis.recommendedScene
        /\ thoughts' = currentDraft'[1].analysis.recommendedThoughts
        /\ loadedVideoUrl' = currentDraft'[1].url
        /\ loadedVideoId' = currentDraft'[1].videoId
        /\ generatedImage' = Null
        /\ loadedId' = Null
        /\ workspaceError' = Null
        /\ ~isPreviewMode'
        /\ ~isSpeakingSummary' /\ sourceNodeRef' = Null /\ audioContextRef' = Null]_vars

\* a draft has arrived while a drawing asked for under another title and a
\* reading are still in flight
C11_Witness ==
    /\ lastCall.op = "handleAnalyze.resolved"
    /\ drawCall # None
    /\ drawCall[1].title # title
    /\ speechCall # None
    /\ title = TitleNotFoundMessage

(***************************************************************************)
(* Saving: analysis, two of the fields, preview and export                 *)
(***************************************************************************)
NextSave ==
    \/ setUrl("youtube link")
    \/ handleAnalyze
    \/ \E text \in AnalysisTexts : handleAnalyzeResolved(text)
    \/ \E v \in TypedTexts : setTitle(v)
    \/ \E v \in TypedTexts : setFavoriteScene(v)
    \/ \E b \in BOOLEAN : setIsPreviewMode(b)
    \/ (Len(entries) < MaxSaved /\ handleDownloadImage)
    \/ \E newId \in GeneratedIds : handleDownloadImageResolved(newId)
    \/ \E cause \in ExportFailures : handleDownloadImageFailed(cause)
    \/ SaveEffect

SpecSave == InitWorkspaceApp /\ [][NextSave]_vars

\* an export fails in this step
ExportFails == lastCall'.op = "handleDownloadImage.failed"

\* the entry is built from the fields f: each text is the field or, for an
\* empty field, a placeholder; url, video id and image are as they are
BuiltFrom(entry, f) ==
    /\ entry.title \in {f.title, NoTitleText}
    /\ entry.summary \in {f.summary, NoSummaryText}
    /\ entry.favoriteScene \in {f.favoriteScene, ImaginedSceneText, NoContentText}
    /\ entry.thoughts \in {f.thoughts, NoContentText}
    /\ Truthy(f.title) => entry.title = f.title
    /\ Truthy(f.summary) => entry.summary = f.summary
    /\ Truthy(f.favoriteScene) => entry.favoriteScene = f.favoriteScene
    /\ Truthy(f.thoughts) => entry.thoughts = f.thoughts
    /\ entry.videoUrl = f.loadedVideoUrl
    /\ entry.videoId = f.loadedVideoId
    /\ entry.generatedImageUrl = IF f.generatedImage = Null THEN Undefined ELSE f.generatedImage

\* C12: an export whose rasterization succeeds produces the file and then
\* calls onSave exactly once, with an entry built from the fields the
\* workspace showed when the save button was pressed, and the library takes
\* that entry; an export without canvas or with an exception calls onSave
\* zero times: library, blob and pending effects stay as they are. Nothing
\* but a successful export changes the library.
C12_ExportSavesOnce ==
    [][/\ ExportStarts =>
            exportCall'[1] = [RenderClosure EXCEPT !.styleConfig = exportCall'[1].styleConfig]
       /\ ExportSaves =>
            /\ Len(lastCall'.onSave) = 1
            /\ lastCall'.file \in {exportCall[1].title, DefaultFileName}
            /\ BuiltFrom(lastCall'.onSave[1], exportCall[1])
            /\ entries' = SaveEntryUpdater(entries, lastCall'.onSave[1])
            /\ Len(pendingEffects') = 1
            /\ ~isSavingImage'
       /\ ExportFails => UNCHANGED <<entries, storage, pendingEffects>>
       /\ ~ExportSaves => entries' = entries]_vars

\* an export has saved the title of the press although the title was edited
\* while the card was rasterized, after an earlier export had failed
C12_Witness ==
    /\ lastCall.op = "handleDownloadImage.resolved"
    /\ lastCall.entry.title = Str(Letter)
    /\ title = EmptyString
    /\ workspaceError = SaveFailedMessage
    /\ Len(entries) = 1

(***************************************************************************)
(* Saving with a loaded id. No code of the repository sets loadedId, so    *)
(* the workspace is taken here with a loaded id already in its state.      *)
(***************************************************************************)
\* the libraries the App is taken with
LoadedLibraries ==
    {<<>>, <<StoreEntry("1", Undefined)>>,
     <<StoreEntry("2", "image"), StoreEntry("1", Undefined)>>}

InitLoaded ==
    /\ InitStyle /\ InitForm /\ InitNoParse
    /\ currentDraft = None
    /\ isFocusMode = FALSE
    /\ entries \in LoadedLibraries
    /\ storage = Item(JSONstringify(entries))
    /\ savedEntriesAtMount = storage
    /\ pendingEffects = <<>>
    /\ queuedEntries = None
    /\ title = EmptyString /\ summary = EmptyString
    /\ favoriteScene = EmptyString /\ thoughts = EmptyString
    /\ generatedImage = Null
    /\ isDrawing = FALSE /\ isSavingImage = FALSE
    /\ workspaceError = Null
    /\ isSpeakingSummary = FALSE /\ isGeneratingSummarySpeech = FALSE
    /\ audioContextRef = Null /\ sourceNodeRef = Null
    /\ playingSource = FALSE /\ endedPending = FALSE
    /\ isPreviewMode = FALSE
    /\ loadedId \in EntryIds
    /\ loadedVideoUrl = "" /\ loadedVideoId = ""
    /\ drawCall = None /\ speechCall = None /\ exportCall = None
    /\ lastCall = Call("mount")

NextLoaded ==
    \/ setUrl("youtube link")
    \/ handleAnalyze
    \/ \E text \in AnalysisTexts : handleAnalyzeResolved(text)
    \/ \E v \in TypedTexts : setTitle(v)
    \/ \E b \in BOOLEAN : setIsPreviewMode(b)
    \/ ((loadedId # Null \/ Len(entries) < MaxSaved) /\ handleDownloadImage)
    \/ \E newId \in GeneratedIds : handleDownloadImageResolved(newId)
    \/ \E cause \in ExportFailures : handleDownloadImageFailed(cause)
    \/ SaveEffect

SpecLoaded == InitLoaded /\ [][NextLoaded]_vars

\* C13: the entry handed to onSave has the loaded id of the workspace when
\* there is one, and saving then replaces the entry of that id in place
\* instead of adding one; without a loaded id the id is one generateId
\* answers with.
C13_LoadedIdMaintained ==
    [][ExportSaves =>
        /\ exportCall[1].loadedId # Null =>
            /\ lastCall'.entry.id = exportCall[1].loadedId
            /\ exportCall[1].loadedId \in Ids(entries) =>
                /\ Len(entries') = Len(entries)
                /\ \A i \in 1..Len(entries) :
                    entries'[i] = IF entries[i].id = exportCall[1].loadedId
                                  THEN lastCall'.entry ELSE entries[i]
        /\ exportCall[1].loadedId = Null =>
            lastCall'.entry.id \in GeneratedIds]_vars

\* the loaded entry, the second of two, was saved with an edited title and
\* replaced in place
C13_Witness ==
    /\ lastCall.op = "handleDownloadImage.resolved"
    /\ lastCall.closure.loadedId = "1"
    /\ Len(entries) = 2
    /\ entries[1] = StoreEntry("2", "image")
    /\ entries[2] = lastCall.entry
    /\ entries[2].id = "1"
    /\ entries[2].title = Str(Letter)
    /\ entries[2] # StoreEntry("1", Undefined)

(***************************************************************************)
(* Claims about the fallbacks of the parser                                *)
(***************************************************************************)
\* the title pattern matches: after some title label and white space there
\* is a character that does not end a line
TitleFound(s) ==
    \E p \in Occurrences(s, TitleLabel) : \E q \in (p + 1)..Len(s) :
        /\ ~IsLineTerminator(s[q])
        /\ \A k \in (p + 1)..(q - 1) : IsSpace(s[k])

IsPartOf(t, s) == \E i \in 1..(Len(s) + 1) : \E j \in (i - 1)..Len(s) : t = SubSeq(s, i, j)

SummaryFound(s) ==
    /\ Occurrences(s, SummaryLabel) # {}
    /\ LET p == Min(Occurrences(s, SummaryLabel))
           rest == {q \in (p + 1)..Len(s) : ~IsSpace(s[q])}
       IN rest # {} /\ s[Min(rest)] # SceneLabel

\* nothing is extracted as summary, the title pattern does not match and
\* the text has more than 10 characters
WholeTextCase(s) == ~SummaryFound(s) /\ ~TitleFound(s) /\ StringLength(s) > 10

\* C15: the returned summary is the whole response text, untrimmed, exactly
\* when no summary was extracted, the title pattern did not match and the
\* text is longer than 10 characters; when no summary was extracted and the
\* title pattern matched or the text has at most 10 characters, the summary
\* is the fixed failure message.
C15_WholeTextFallback ==
    Parsed =>
        /\ Result.summary = responseText <=> WholeTextCase(responseText)
        /\ ~SummaryFound(responseText) /\ ~WholeTextCase(responseText) =>
               Result.summary = SummaryFailedMessage

\* a text of 12 characters that starts with white space and has a summary
\* label with nothing to extract is returned whole
C15_Witness ==
    /\ Parsed
    /\ responseText = <<Space, ThoughtsLabel, SummaryLabel, SceneLabel>>
    /\ Result.summary = responseText

(***************************************************************************)
(* The form: the link, the writing grade and the analysis                  *)
(***************************************************************************)
\* the links of the form: no link, a link that is none of YouTube, two
\* YouTube links
FormUrls == Urls \cup {"other youtube link"}

NextForm ==
    \/ \E u \in FormUrls : setUrl(u)
    \/ toggleWritingGrade
    \/ handleAnalyze
    \/ \E text \in AnalysisTexts : handleAnalyzeResolved(text)
    \/ \E message \in AnalyzeErrors : handleAnalyzeRejected(message)

SpecForm == InitWorkspaceApp /\ [][NextForm]_vars

\* handleAnalyze is called in this step
AnalyzeCalled == lastCall'.op = "handleAnalyze"

\* C16: a call of handleAnalyze with an empty link, or with a link that
\* holds no YouTube video id, sets an error message, leaves isAnalyzing
\* false, makes no analyzeStoryLink call and brings no draft; a call that is
\* made is for the link of the form and its video id; the draft that
\* onAnalyzeComplete brings has the link of the call and the video id, not
\* null, extracted from it, and a draft comes from nowhere else.
C16_AnalyzeValidates ==
    [][/\ AnalyzeCalled /\ (url = "" \/ extractYouTubeId(url) = Null) =>
            /\ formError' \in {EnterLinkMessage, InvalidLinkMessage}
            /\ ~isAnalyzing'
            /\ analyzeCall' = None
            /\ currentDraft' = currentDraft
       /\ AnalyzeCalled /\ analyzeCall' # None =>
            /\ analyzeCall'[1].url = url
            /\ analyzeCall'[1].videoId = extractYouTubeId(url)
       /\ DraftArrives =>
            /\ analyzeCall # None
            /\ currentDraft'[1].url = analyzeCall[1].url
            /\ currentDraft'[1].videoId = extractYouTubeId(analyzeCall[1].url)
            /\ currentDraft'[1].videoId # Null
       /\ ~DraftArrives => currentDraft' = currentDraft]_vars

\* handleAnalyze has refused a link that is none of YouTube while the draft
\* of an earlier analysis stays
C16_Witness ==
    /\ lastCall.op = "handleAnalyze"
    /\ url = "plain link"
    /\ formError = InvalidLinkMessage
    /\ ~isAnalyzing /\ analyzeCall = None
    /\ currentDraft # None
    /\ currentDraft[1].videoId = "other video"

\* C17: every completed analysis sets font family, font size and drawing
\* level to 'basic', 'medium' and 'low', leaves the writing grade at the
\* value it has, and does not change the entries.
C17_AnalysisResetsStyle ==
    [][DraftArrives =>
        /\ fontFamily' = "basic"
        /\ fontSize' = "medium"
        /\ drawingLevel' = "low"
        /\ writingGrade' = writingGrade
        /\ entries' = entries]_vars

\* an analysis has completed with the writing grade at 2, the library
\* holding an entry that was saved under another font, size and level
C17_Witness ==
    /\ lastCall.op = "handleAnalyze.resolved"
    /\ writingGrade = 2
    /\ fontFamily = "basic" /\ fontSize = "medium" /\ drawingLevel = "low"
    /\ entries # <<>>
    /\ entries[1].styleConfig = StyleConfig("cute", "large", "medium", 2)

(***************************************************************************)
(* Drawing: analysis, scene and summary, the drawing level and the image   *)
(***************************************************************************)
NextDraw ==
    \/ setUrl("youtube link")
    \/ handleAnalyze
    \/ \E text \in AnalysisTexts : handleAnalyzeResolved(text)
    \/ \E v \in TypedTexts : setSummary(v)
    \/ \E v \in TypedTexts : setFavoriteScene(v)
    \/ toggleDrawingLevel
    \/ removeImage
    \/ handleDrawScene
    \/ \E image \in GeneratedImages : handleDrawSceneResolved(image)
    \/ \E message \in DrawErrors : handleDrawSceneRejected(message)

SpecDraw == InitWorkspaceApp /\ [][NextDraw]_vars

\* handleDrawScene is called in this step
DrawCalled == lastCall'.op = "handleDrawScene"
NothingToDraw == favoriteScene = EmptyString /\ summary = EmptyString

\* C18: a call of handleDrawScene with scene and summary both empty sets an
\* error, issues no request and leaves isDrawing and generatedImage as they
\* are; any other call clears the error and issues one generateSceneImage
\* request with the scene, title, summary and drawing level of that moment,
\* which ends once; a request that fails leaves generatedImage as it is, one
\* that succeeds puts its image there, and no other step puts an image there.
C18_DrawRequiresContent ==
    [][/\ DrawCalled /\ NothingToDraw =>
            /\ workspaceError' = NeedSceneMessage
            /\ drawCall' = None
            /\ UNCHANGED <<isDrawing, generatedImage>>
       /\ DrawCalled /\ ~NothingToDraw =>
            /\ workspaceError' = Null
            /\ drawCall = None
            /\ drawCall' = Some([scene |-> favoriteScene, title |-> title,
                                 summary |-> summary, level |-> drawingLevel,
                                 initialData |-> currentDraft])
            /\ isDrawing'
            /\ UNCHANGED generatedImage
       /\ lastCall'.op = "handleDrawScene.rejected" =>
            /\ drawCall # None /\ drawCall' = None
            /\ UNCHANGED generatedImage
       /\ lastCall'.op = "handleDrawScene.resolved" =>
            /\ drawCall # None /\ drawCall' = None
            /\ generatedImage' \in GeneratedImages
       /\ generatedImage' # generatedImage /\ generatedImage' # Null =>
            lastCall'.op = "handleDrawScene.resolved"]_vars

\* handleDrawScene has refused to draw for a workspace whose scene and
\* summary were emptied, and the image drawn before is still there
C18_Witness ==
    /\ lastCall.op = "handleDrawScene"
    /\ workspaceError = NeedSceneMessage
    /\ favoriteScene = EmptyString /\ summary = EmptyString
    /\ generatedImage \in GeneratedImages
    /\ ~isDrawing /\ drawCall = None
    /\ drawingLevel = "high"

(***************************************************************************)
(* The four asynchronous handlers when every external call ends            *)
(***************************************************************************)
\* the ends of the external calls: the analysis, the image request, the
\* speech request and the decoding, the rasterization
AnalysisEnds ==
    \/ handleAnalyzeResolved(FormattedText)
    \/ \E message \in AnalyzeErrors : handleAnalyzeRejected(message)
DrawingEnds ==
    \/ \E image \in GeneratedImages : handleDrawSceneResolved(image)
    \/ \E message \in DrawErrors : handleDrawSceneRejected(message)
SpeechEnds ==
    \/ handlePlaySummarySpeechResolved
    \/ handlePlaySummaryResolved
    \/ handlePlaySummaryRejected
ExportEnds ==
    \/ \E newId \in GeneratedIds : handleDownloadImageResolved(newId)
    \/ \E cause \in ExportFailures : handleDownloadImageFailed(cause)

\* every external call resolves or rejects: no call of a kind stays in
\* flight for ever. An end of a call is enabled as long as the call is in
\* flight, and a call has at most two ends one after the other, so this is
\* weak fairness of AnalysisEnds, DrawingEnds, SpeechEnds and ExportEnds.
\* React runs the effects it has scheduled.
CallsEnd ==
    /\ []<>(analyzeCall = None)
    /\ []<>(drawCall = None)
    /\ []<>(speechCall = None)
    /\ []<>(exportCall = None)
    /\ WF_vars(SaveEffect)

SpecFailuresFair == SpecFailures /\ CallsEnd

\* C19: when every external call eventually resolves or rejects, each of
\* isAnalyzing, isDrawing, isGeneratingSummarySpeech and isSavingImage that
\* is true becomes false again.
C19_FlagsEventuallyCleared ==
    /\ isAnalyzing ~> ~isAnalyzing
    /\ isDrawing ~> ~isDrawing
    /\ isGeneratingSummarySpeech ~> ~isGeneratingSummarySpeech
    /\ isSavingImage ~> ~isSavingImage

\* all four flags are clear again after a failed analysis, a saved export,
\* a started reading and a failed drawing
C19_Witness ==
    /\ lastCall.op = "handleDrawScene.rejected"
    /\ ~isAnalyzing /\ ~isDrawing /\ ~isGeneratingSummarySpeech /\ ~isSavingImage
    /\ formError \in AnalyzeErrors
    /\ entries # <<>>
    /\ isSpeakingSummary

(***************************************************************************)
(* The requests of the four handlers, with the preview and its save button *)
(***************************************************************************)
NextRequests ==
    \/ setUrl("youtube link")
    \/ handleAnalyze
    \/ AnalysisEnds
    \/ \E b \in BOOLEAN : setIsPreviewMode(b)
    \/ handleDrawScene
    \/ DrawingEnds
    \/ handlePlaySummary
    \/ SpeechEnds
    \/ onended
    \/ (Len(entries) < MaxSaved /\ handleDownloadImage)
    \/ ExportEnds
    \/ SaveEffect

SpecRequests == InitWorkspaceApp /\ [][NextRequests]_vars

\* handlePlaySummary is called in this step
PlayCalled == lastCall'.op = "handlePlaySummary"

\* C20: of each kind at most one request is in flight: a call of
\* handleAnalyze, handleDrawScene, handlePlaySummary or handleDownloadImage
\* that issues a request finds its flag false and no request of its kind in
\* flight, the save button of the preview included, and a flag is true as
\* long as the request of its kind is in flight.
C20_OneRequestPerKind ==
    /\ []FlagsFollowCalls
    /\ [][/\ AnalyzeCalled /\ analyzeCall' # None => ~isAnalyzing /\ analyzeCall = None
          /\ DrawCalled /\ drawCall' # None => ~isDrawing /\ drawCall = None
          /\ PlayCalled /\ speechCall' # None =>
                ~isGeneratingSummarySpeech /\ speechCall = None
          /\ ExportStarts /\ exportCall' # None => ~isSavingImage /\ exportCall = None
          /\ analyzeCall # None /\ analyzeCall' # None => analyzeCall' = analyzeCall
          /\ drawCall # None /\ drawCall' # None => drawCall' = drawCall
          /\ speechCall # None /\ speechCall' # None =>
                speechCall'[1].summary = speechCall[1].summary
          /\ exportCall # None /\ exportCall' # None => exportCall' = exportCall]_vars

\* in the preview, with one request of each of the four kinds in flight, the
\* export started last
C20_Witness ==
    /\ lastCall.op = "handleDownloadImage"
    /\ isPreviewMode
    /\ analyzeCall # None /\ drawCall # None /\ speechCall # None /\ exportCall # None
    /\ isAnalyzing /\ isDrawing /\ isGeneratingSummarySpeech /\ isSavingImage

(***************************************************************************)
(* The drawn image and the draft it was drawn for                          *)
(***************************************************************************)
\* generateSceneImage resolves in this step
DrawingArrives == lastCall'.op = "handleDrawScene.resolved"

\* C21: the generated image always belongs to the current draft: a new
\* draft leaves no image, only a resolved draw request sets an image, and
\* the request whose image is set was issued under the draft that is the
\* current one when the image arrives, also when a new analysis result
\* arrived while the request was in flight.
C21_ImageBelongsToDraft ==
    [][/\ DraftArrives => generatedImage' = Null
       /\ generatedImage' # Null /\ generatedImage' # generatedImage => DrawingArrives
       /\ DrawingArrives /\ generatedImage' # Null =>
            drawCall[1].initialData = currentDraft]_vars

(***************************************************************************)
(* Reading the summary aloud: drafts, the audio button and the sources     *)
(***************************************************************************)
NextAudio ==
    \/ setUrl("youtube link")
    \/ handleAnalyze
    \/ \E text \in AnalysisTexts : handleAnalyzeResolved(text)
    \/ \E v \in TypedTexts : setSummary(v)
    \/ handlePlaySummary
    \/ SpeechEnds
    \/ onended
    \/ onendedOfStopped

SpecAudio == InitWorkspaceApp /\ [][NextAudio]_vars

\* C22: the speaking flag matches the audio actually playing: under every
\* interleaving of play requests, stopAudio, new drafts and the onended
\* callbacks of earlier sources, isSpeakingSummary is true exactly when
\* sourceNodeRef holds a started source that is neither stopped nor ended,
\* and nothing sounds while the flag is false and the ref is null.
C22_SpeakingFlagMatchesAudio ==
    /\ isSpeakingSummary <=> (sourceNodeRef # Null /\ playingSource)
    /\ ~isSpeakingSummary /\ sourceNodeRef = Null => ~playingSource

\* the source of a resolved play request starts in this step
PlayStarts == lastCall'.op = "handlePlaySummary.resolved"

\* C23: the audio button is a toggle. A call of handlePlaySummary while the
\* summary is read stops the playback and asks for no speech; a call with an
\* empty summary while nothing is read sets the error and asks for no
\* speech; every other call asks for the speech of the summary once, and
\* isSpeakingSummary becomes true only when that request and the decoding
\* have succeeded.
C23_AudioButtonToggles ==
    [][/\ PlayCalled /\ isSpeakingSummary =>
            /\ ~isSpeakingSummary' /\ sourceNodeRef' = Null /\ ~playingSource'
            /\ UNCHANGED <<speechCall, isGeneratingSummarySpeech, workspaceError>>
       /\ PlayCalled /\ ~isSpeakingSummary /\ summary = EmptyString =>
            /\ workspaceError' = NoSummaryMessage
            /\ UNCHANGED <<speechCall, isGeneratingSummarySpeech, isSpeakingSummary>>
       /\ PlayCalled /\ ~isSpeakingSummary /\ summary # EmptyString =>
            /\ speechCall = None
            /\ speechCall' = Some([summary |-> summary, awaiting |-> "generateStorySpeech"])
            /\ isGeneratingSummarySpeech'
            /\ ~isSpeakingSummary'
       /\ ~isSpeakingSummary /\ isSpeakingSummary' =>
            /\ PlayStarts
            /\ speechCall # None /\ speechCall[1].awaiting = "decodeAudioData"
            /\ speechCall' = None]_vars

\* the button has started a reading, stopped it, and is pressed once more
\* with the summary deleted
C23_Witness ==
    /\ lastCall.op = "handlePlaySummary"
    /\ workspaceError = NoSummaryMessage
    /\ endedPending
    /\ ~isSpeakingSummary /\ speechCall = None

(***************************************************************************)
(* The card: the four fields typed and deleted, the drawing, the export    *)
(***************************************************************************)
\* one draft; the drawing and the export one after the other
NextCard ==
    \/ setUrl("youtube link")
    \/ (currentDraft = None /\ handleAnalyze)
    \/ handleAnalyzeResolved(FormattedText)
    \/ \E v \in TypedTexts : setTitle(v)
    \/ \E v \in TypedTexts : setSummary(v)
    \/ \E v \in TypedTexts : setFavoriteScene(v)
    \/ \E v \in TypedTexts : setThoughts(v)
    \/ (exportCall = None /\ handleDrawScene)
    \/ \E image \in GeneratedImages : handleDrawSceneResolved(image)
    \/ removeImage
    \/ (drawCall = None /\ Len(entries) < MaxSaved /\ handleDownloadImage)
    \/ \E newId \in GeneratedIds : handleDownloadImageResolved(newId)
    \/ SaveEffect

SpecCard == InitWorkspaceApp /\ [][NextCard]_vars

\* C24: every entry that reaches the library through an export has a
\* non-empty title, summary, scene and thoughts, whatever was typed or
\* deleted: a field that is empty in the exported render is replaced by its
\* placeholder, and an empty scene is replaced by the text about the scene
\* the AI imagined when that render has a drawn image, by the generic
\* placeholder when it has none; a field that is not empty is kept.
C24_ExportedFieldsNeverEmpty ==
    /\ [](\A i \in 1..Len(entries) :
            /\ entries[i].title # EmptyString /\ entries[i].summary # EmptyString
            /\ entries[i].favoriteScene # EmptyString /\ entries[i].thoughts # EmptyString)
    /\ [][ExportSaves =>
            LET c == exportCall[1]
                e == lastCall'.onSave[1]
            IN  /\ \E i \in 1..Len(entries') : entries'[i] = e
                /\ e.title = IF c.title = EmptyString THEN NoTitleText ELSE c.title
                /\ e.summary = IF c.summary = EmptyString THEN NoSummaryText ELSE c.summary
                /\ e.thoughts = IF c.thoughts = EmptyString THEN NoContentText ELSE c.thoughts
                /\ e.favoriteScene =
                        IF c.favoriteScene # EmptyString THEN c.favoriteScene
                        ELSE IF e.generatedImageUrl # Undefined THEN ImaginedSceneText
                        ELSE NoContentText]_vars

\* an entry exported with every field deleted and an image drawn: three
\* placeholders and the text about the imagined scene
C24_Witness ==
    /\ lastCall.op = "handleDownloadImage.resolved"
    /\ Len(entries) = 1
    /\ entries[1].title = NoTitleText /\ entries[1].summary = NoSummaryText
    /\ entries[1].thoughts = NoContentText
    /\ entries[1].favoriteScene = ImaginedSceneText
    /\ entries[1].generatedImageUrl # Undefined

(***************************************************************************)
(* The AI services on their own: the arguments, the API key, and what the  *)
(* API answers are drawn in the initial state                              *)
(***************************************************************************)
\* process.env.API_KEY: not set, or a key
ApiKeys == {"", "key"}
\* getClient: a client, or the throw
getClient(apiKey) == IF apiKey = "" THEN [thrown |-> TRUE, message |-> ApiKeyMessage]
                     ELSE [thrown |-> FALSE, message |-> ""]

\* how a try block or a promise ends: with a value, or with an Error of a
\* message; `request` is what was sent to the API, if anything was
Returns(v, request) == [thrown |-> FALSE, message |-> "", value |-> v, request |-> request]
Throws(message, request) ==
    [thrown |-> TRUE, message |-> message, value |-> EmptyString, request |-> request]

\* the parts of a response: text, or inline data with or without a mime type
TextPart == [inlineData |-> None]
InlinePart(mimeType, data) == [inlineData |-> Some([mimeType |-> mimeType, data |-> data])]
MimeTypes == {Undefined, "", "image/jpeg"}
Base64Data == {"", "first", "second"}
ResponseParts == {TextPart} \cup {InlinePart(mt, d) : mt \in MimeTypes, d \in Base64Data}
MaxParts == 2

\* responses of generateContent: without candidates, with an empty list of
\* candidates, with a first candidate without content or without parts, and
\* with up to MaxParts parts
Response(candidates) == [candidates |-> candidates]
Candidate(content) == [content |-> content]
Content(parts) == [parts |-> parts]
ApiResponses ==
    {Response(None), Response(Some(<<>>)), Response(Some(<<Candidate(None)>>)),
     Response(Some(<<Candidate(Some(Content(None)))>>))}
    \cup {Response(Some(<<Candidate(Some(Content(Some(parts))))>>)) :
            parts \in StringsUpTo(ResponseParts, MaxParts)}
\* the call of generateContent rejects, or resolves with a response
ApiAnswers ==
    {[rejects |-> TRUE, response |-> Response(None)]}
    \cup {[rejects |-> FALSE, response |-> r] : r \in ApiResponses}

\* ---- generateSceneImage ----
SummaryScenePrefix == "The most representative and heartwarming scene from the story summary: "
SimpleStyle == "Style: Simple and cute art."
StandardStyle == "Style: Standard children's book illustration."
HighQualityStyle == "Style: High-quality, artistic illustration."
NoImageMessage == "(no image was generated)"
TypeErrorMessage == "TypeError"

\* mutant of EffectiveDescription: only the empty description is replaced
EffectiveDescriptionUntrimmed(sceneDescription, storySummary) ==
    IF Truthy(sceneDescription) THEN sceneDescription
    ELSE <<SummaryScenePrefix>> \o storySummary

EffectiveDescription(sceneDescription, storySummary) ==
    IF Truthy(Trim(sceneDescription)) THEN sceneDescription
    ELSE <<SummaryScenePrefix>> \o storySummary

StyleGuide(level) ==
    IF level = "low" THEN SimpleStyle
    ELSE IF level = "medium" THEN StandardStyle
    ELSE HighQualityStyle

\* the prompt, by the values interpolated into it
ImagePrompt(sceneDescription, storyTitle, storySummary, level) ==
    [title |-> storyTitle, summary |-> storySummary, level |-> level,
     description |-> EffectiveDescription(sceneDescription, storySummary),
     styleGuide |-> StyleGuide(level)]

DataUrl(mimeType, data) == <<"data:", mimeType, ";base64,", data>>

\* the try block of generateSceneImage after the await
SceneImageTry(answer, request) ==
    IF answer.rejects THEN Throws("rejected", request)
    ELSE LET candidates == answer.response.candidates
         IN  IF candidates = None THEN Throws(NoImageMessage, request)
             ELSE IF candidates[1] = <<>> THEN Throws(TypeErrorMessage, request)
             ELSE IF candidates[1][1].content = None THEN Throws(NoImageMessage, request)
             ELSE IF candidates[1][1].content[1].parts = None THEN Throws(NoImageMessage, request)
             ELSE LET parts == candidates[1][1].content[1].parts[1]
                      inline == {i \in 1..Len(parts) : parts[i].inlineData # None}
                  IN  IF inline = {} THEN Throws(NoImageMessage, request)
                      ELSE LET inlineData == parts[Min(inline)].inlineData[1]
                               mimeType == IF inlineData.mimeType \in {Undefined, ""}
                                           THEN "image/png" ELSE inlineData.mimeType
                           IN  Returns(DataUrl(mimeType, inlineData.data), request)

\* mutant of SceneImageOutcome: no catch around the try block
SceneImageOutcomeUncaught(call) ==
    IF getClient(call.apiKey).thrown THEN Throws(getClient(call.apiKey).message, None)
    ELSE SceneImageTry(call.answer, Some(ImagePrompt(call.sceneDescription, call.title,
                                                     call.summary, call.level)))

\* what the promise of generateSceneImage settles with
SceneImageOutcome(call) ==
    IF getClient(call.apiKey).thrown THEN Throws(getClient(call.apiKey).message, None)
    ELSE LET request == Some(ImagePrompt(call.sceneDescription, call.title,
                                         call.summary, call.level))
             try == SceneImageTry(call.answer, request)
         IN  IF try.thrown THEN Throws(DrawFailedMessage, request) ELSE try

SceneDescriptions == {EmptyString, <<Space>>, <<Newline, Space>>, <<Letter>>, <<Space, Letter>>}
SceneImageCalls ==
    [fn : {"generateSceneImage"}, apiKey : ApiKeys, sceneDescription : SceneDescriptions,
     title : {Str(Letter)}, summary : TypedTexts, level : Range(DrawingLevels),
     answer : ApiAnswers]

\* ---- generateStorySpeech ----
SpeechFailedMessage == "(an error occurred while generating the speech)"
NoAudioMessage == "No audio data returned"

\* the try block of generateStorySpeech after the await:
\* response.candidates?.[0]?.content?.parts?.[0]?.inlineData?.data
SpeechTry(answer, request) ==
    IF answer.rejects THEN Throws("rejected", request)
    ELSE LET candidates == answer.response.candidates
         IN  IF candidates = None THEN Throws(NoAudioMessage, request)
             ELSE IF candidates[1] = <<>> THEN Throws(NoAudioMessage, request)
             ELSE IF candidates[1][1].content = None THEN Throws(NoAudioMessage, request)
             ELSE IF candidates[1][1].content[1].parts = None THEN Throws(NoAudioMessage, request)
             ELSE LET parts == candidates[1][1].content[1].parts[1]
                  IN  IF parts = <<>> THEN Throws(NoAudioMessage, request)
                      ELSE IF parts[1].inlineData = None THEN Throws(NoAudioMessage, request)
                      ELSE IF parts[1].inlineData[1].data = "" THEN Throws(NoAudioMessage, request)
                      ELSE Returns(Str(parts[1].inlineData[1].data), request)

\* what the promise of generateStorySpeech settles with
SpeechOutcome(call) ==
    IF getClient(call.apiKey).thrown THEN Throws(getClient(call.apiKey).message, None)
    ELSE LET request == Some([text |-> call.text])
             try == SpeechTry(call.answer, request)
         IN  IF try.thrown THEN Throws(SpeechFailedMessage, request) ELSE try

SpeechCalls ==
    [fn : {"generateStorySpeech"}, apiKey : ApiKeys, text : {Str(Letter)}, answer : ApiAnswers]

\* ---- analyzeStoryLink ----
\* the call of generateContent rejects, or resolves with a response whose
\* text is undefined (read as ""), or a text
TextAnswers ==
    {[rejects |-> TRUE, response |-> [text |-> EmptyString]]}
    \cup {[rejects |-> FALSE, response |-> [text |-> text]] :
            text \in AnalysisTexts \cup {Str(Letter)}}

\* what the promise of analyzeStoryLink settles with
AnalysisOutcome(call) ==
    IF getClient(call.apiKey).thrown THEN Throws(getClient(call.apiKey).message, None)
    ELSE LET request == Some([url |-> call.url, writingGrade |-> call.writingGrade,
                              manualTitle |-> call.manualTitle])
         IN  IF call.answer.rejects THEN Throws(AnalyzeFailedMessage, request)
             ELSE Returns(ParseAnalysis(call.answer.response.text, call.manualTitle), request)

AnalysisCalls ==
    [fn : {"analyzeStoryLink"}, apiKey : ApiKeys, url : {"youtube link", "plain link"},
     writingGrade : {1, 4}, manualTitle : {EmptyString, Str(Letter)}, answer : TextAnswers]

InitServices ==
    /\ InitApp /\ InitStyle /\ InitForm /\ InitWorkspace /\ InitNoRuntime
    /\ responseText = EmptyString /\ manualTitle = EmptyString /\ analysisResult = None
    /\ serviceCall \in {Some(call) : call \in SceneImageCalls \cup SpeechCalls \cup AnalysisCalls}
    /\ serviceResult = None
    /\ lastCall = Call("init")

generateSceneImage ==
    /\ serviceResult = None
    /\ serviceCall[1].fn = "generateSceneImage"
    /\ serviceResult' = Some(SceneImageOutcome(serviceCall[1]))
    /\ lastCall' = Call("generateSceneImage")
    /\ UNCHANGED <<responseText, manualTitle, analysisResult, serviceCall, savedEntriesAtMount>>
    /\ UNCHANGED <<appVars, styleVars, runtimeVars, formVars, workspaceVars>>

generateStorySpeech ==
    /\ serviceResult = None
    /\ serviceCall[1].fn = "generateStorySpeech"
    /\ serviceResult' = Some(SpeechOutcome(serviceCall[1]))
    /\ lastCall' = Call("generateStorySpeech")
    /\ UNCHANGED <<responseText, manualTitle, analysisResult, serviceCall, savedEntriesAtMount>>
    /\ UNCHANGED <<appVars, styleVars, runtimeVars, formVars, workspaceVars>>

\* analyzeStoryLink with its client and its call of the API
analyzeStoryLinkCall ==
    /\ serviceResult = None
    /\ serviceCall[1].fn = "analyzeStoryLink"
    /\ serviceResult' = Some(AnalysisOutcome(serviceCall[1]))
    /\ lastCall' = Call("analyzeStoryLink")
    /\ UNCHANGED <<responseText, manualTitle, analysisResult, serviceCall, savedEntriesAtMount>>
    /\ UNCHANGED <<appVars, styleVars, runtimeVars, formVars, workspaceVars>>

NextServices ==
    \/ generateSceneImage
    \/ generateStorySpeech
    \/ analyzeStoryLinkCall

SpecServices == InitServices /\ [][NextServices]_vars

\* the service function has settled
Settled == serviceResult # None
Outcome == serviceResult[1]
ServiceCall == serviceCall[1]
\* the parts of the first candidate of the response
AnsweredParts == ServiceCall.answer.response.candidates[1][1].content[1].parts[1]
OnlyWhiteSpace(s) == \A i \in 1..Len(s) : s[i] \in {Space, Newline}

\* C25: generateSceneImage chooses what it asks for from its arguments: the
\* illustrated description is the scene description, or the description
\* made from the summary when the scene description is empty or white space
\* only; the style guide is the simple one for 'low', the standard one for
\* 'medium' and the high-quality one otherwise; when it resolves, the value
\* is the data URL of the first part with inline data, with the mime type
\* image/png when the part names none.
C25_PromptAndImageChosen ==
    Settled /\ ServiceCall.fn = "generateSceneImage" /\ Outcome.request # None =>
        /\ Outcome.request[1].description =
                IF OnlyWhiteSpace(ServiceCall.sceneDescription)
                THEN <<SummaryScenePrefix>> \o ServiceCall.summary
                ELSE ServiceCall.sceneDescription
        /\ ServiceCall.level = "low" => Outcome.request[1].styleGuide = SimpleStyle
        /\ ServiceCall.level = "medium" => Outcome.request[1].styleGuide = StandardStyle
        /\ ServiceCall.level \notin {"low", "medium"} =>
                Outcome.request[1].styleGuide = HighQualityStyle
        /\ ~Outcome.thrown =>
                \E i \in 1..Len(AnsweredParts) :
                    /\ AnsweredParts[i].inlineData # None
                    /\ \A j \in 1..(i - 1) : AnsweredParts[j].inlineData = None
                    /\ Outcome.value[4] = AnsweredParts[i].inlineData[1].data
                    /\ Outcome.value[2] =
                            IF AnsweredParts[i].inlineData[1].mimeType \in {Undefined, ""}
                            THEN "image/png" ELSE AnsweredParts[i].inlineData[1].mimeType
                    /\ Outcome.value[1] = "data:" /\ Outcome.value[3] = ";base64,"
                    /\ Len(Outcome.value) = 4

\* a blank scene description at the level 'high', answered with a text part
\* and then an image without mime type
C25_Witness ==
    /\ Settled /\ ServiceCall.fn = "generateSceneImage"
    /\ ServiceCall.sceneDescription = <<Newline, Space>>
    /\ ServiceCall.level = "high"
    /\ ~ServiceCall.answer.rejects
    /\ ServiceCall.answer.response =
            Response(Some(<<Candidate(Some(Content(Some(
                <<TextPart, InlinePart(Undefined, "second")>>))))>>))
    /\ Outcome = Returns(<<"data:", "image/png", ";base64,", "second">>,
                         Some([title |-> Str(Letter), summary |-> ServiceCall.summary,
                               level |-> "high",
                               description |-> <<SummaryScenePrefix>> \o ServiceCall.summary,
                               styleGuide |-> HighQualityStyle]))

\* the one message each service function gives its failures in its catch
FixedMessage(fn) ==
    IF fn = "analyzeStoryLink" THEN AnalyzeFailedMessage
    ELSE IF fn = "generateSceneImage" THEN DrawFailedMessage
    ELSE SpeechFailedMessage

\* the answer of the API carries nothing the function can use
NothingUsable ==
    \/ ServiceCall.answer.rejects
    \/ /\ ServiceCall.fn # "analyzeStoryLink"
       /\ \/ ServiceCall.answer.response.candidates \in {None, Some(<<>>)}
          \/ ServiceCall.answer.response.candidates[1][1].content \in {None, Some(Content(None))}
          \/ /\ ServiceCall.fn = "generateSceneImage"
             /\ \A i \in 1..Len(AnsweredParts) : AnsweredParts[i].inlineData = None
          \/ /\ ServiceCall.fn = "generateStorySpeech"
             /\ \/ AnsweredParts = <<>>
                \/ AnsweredParts[1].inlineData = None
                \/ AnsweredParts[1].inlineData[1].data = ""

\* C26 as stated: every failure of analyzeStoryLink, generateSceneImage and
\* generateStorySpeech is a thrown error with the one fixed message of the
\* function, and no other message reaches the caller.
C26_OneFixedMessage ==
    Settled /\ Outcome.thrown => Outcome.message = FixedMessage(ServiceCall.fn)

\* C26 amended: each service function has two failure messages. Without an
\* API key getClient throws 'API Key not found' before the try block, the
\* API is not called, and that message reaches the caller. With a key,
\* every failure, a rejected call or a response with nothing usable, is a
\* thrown error with the one fixed message of the function, and the
\* function fails in no other case.
C26_FixedMessageOrApiKeyMessage ==
    Settled =>
        /\ ServiceCall.apiKey = "" =>
                Outcome.thrown /\ Outcome.message = ApiKeyMessage /\ Outcome.request = None
        /\ ServiceCall.apiKey # "" =>
                /\ Outcome.request # None
                /\ Outcome.thrown <=> NothingUsable
                /\ Outcome.thrown => Outcome.message = FixedMessage(ServiceCall.fn)

\* generateStorySpeech, with a key, answered with audio in the second part
\* only, has failed with its fixed message
C26_Witness ==
    /\ Settled /\ ServiceCall.fn = "generateStorySpeech"
    /\ ServiceCall.apiKey = "key"
    /\ ~ServiceCall.answer.rejects
    /\ ServiceCall.answer.response.candidates # None
    /\ ServiceCall.answer.response =
            Response(Some(<<Candidate(Some(Content(Some(
                <<TextPart, InlinePart("", "second")>>))))>>))
    /\ Outcome.thrown /\ Outcome.message = SpeechFailedMessage

(***************************************************************************)
(* The preview                                                             *)
(***************************************************************************)
\* the preview button or "edit again" is pressed in this step
PreviewToggled == lastCall'.op = "setIsPreviewMode"

\* C27: the preview is a two-state toggle that never changes content: a
\* step that enters or leaves it flips isPreviewMode and leaves the four
\* fields, the image and the library as they are; isPreviewMode becomes true
\* only by the preview button and false only by "edit again" or by a new
\* draft, and a new draft always leaves the workspace in edit mode.
C27_PreviewChangesNoContent ==
    [][/\ PreviewToggled =>
            /\ isPreviewMode' = ~isPreviewMode
            /\ UNCHANGED <<title, summary, favoriteScene, thoughts, generatedImage, entries>>
       /\ ~isPreviewMode /\ isPreviewMode' => PreviewToggled
       /\ isPreviewMode /\ ~isPreviewMode' => PreviewToggled \/ DraftArrives
       /\ DraftArrives => ~isPreviewMode']_vars

\* back from the preview with the image drawn and the card saved while it
\* was previewed
C27_Witness ==
    /\ lastCall.op = "setIsPreviewMode"
    /\ ~isPreviewMode
    /\ generatedImage # Null
    /\ Len(entries) = 1
    /\ title # EmptyString

(***************************************************************************)
(* The style toggles and the focus mode next to a draft and a library      *)
(***************************************************************************)
NextStyle ==
    \/ NextExport
    \/ toggleFocusMode

SpecStyle == InitWorkspaceApp /\ [][NextStyle]_vars

\* what no toggle touches: the draft, the text fields and the image of the
\* workspace, the library
DraftAndCards == <<currentDraft, title, summary, favoriteScene, thoughts, generatedImage, entries>>

\* C28: the toggles have a narrow effect. Each of the four style toggles
\* changes its own style option and leaves the three other options, the
\* draft, the fields of the workspace, the library and the focus mode as
\* they are; toggleFocusMode flips isFocusMode, so that two toggles in a row
\* restore it, and changes nothing else.
C28_TogglesChangeOnlyTheirOption ==
    [][/\ lastCall'.op = "toggleFontFamily" =>
            /\ fontFamily' # fontFamily
            /\ UNCHANGED <<fontSize, drawingLevel, writingGrade, isFocusMode, DraftAndCards>>
       /\ lastCall'.op = "toggleFontSize" =>
            /\ fontSize' # fontSize
            /\ UNCHANGED <<fontFamily, drawingLevel, writingGrade, isFocusMode, DraftAndCards>>
       /\ lastCall'.op = "toggleDrawingLevel" =>
            /\ drawingLevel' # drawingLevel
            /\ UNCHANGED <<fontFamily, fontSize, writingGrade, isFocusMode, DraftAndCards>>
       /\ lastCall'.op = "toggleWritingGrade" =>
            /\ writingGrade' # writingGrade
            /\ UNCHANGED <<fontFamily, fontSize, drawingLevel, isFocusMode, DraftAndCards>>
       /\ lastCall'.op = "toggleFocusMode" =>
            /\ isFocusMode' = ~isFocusMode
            /\ UNCHANGED <<styleVars, DraftAndCards, formVars, workspaceVars, runtimeVars>>]_vars

\* the focus mode is off again after a toggle, with the font changed, a
\* draft in the workspace and a card in the library
C28_Witness ==
    /\ lastCall.op = "toggleFocusMode"
    /\ ~isFocusMode
    /\ fontFamily = "cute"
    /\ currentDraft # None
    /\ Len(entries) = 1

(***************************************************************************)
(* The style in the editor and on the card                                 *)
(***************************************************************************)
\* a Tailwind text size class, "text-" and what follows it
TextClass(suffix) == <<"text-", suffix>>
\* the place of a font size in the rows of the size maps
SizeColumn(size) == IndexOf(FontSizes, size) + 1

\* ---- StoryWorkspace ----
getHeaderFontClass(family) ==
    CASE family = "cute" -> "font-['Jua']"
      [] family = "hand" -> "font-['Nanum_Pen_Script']"
      [] family = "dongle" -> "font-['Dongle']"
      [] family = "gamja" -> "font-['Gamja_Flower']"
      [] family = "poor" -> "font-['Poor_Story']"
      [] OTHER -> "font-handwritten"

getBodyFontClass(family) ==
    CASE family = "cute" -> "font-['Jua']"
      [] family = "hand" -> "font-['Nanum_Pen_Script']"
      [] family = "dongle" -> "font-['Dongle']"
      [] family = "gamja" -> "font-['Gamja_Flower']"
      [] family = "poor" -> "font-['Poor_Story']"
      [] OTHER -> "font-sans"

BaseSizes == {"sm", "base", "lg", "xl", "2xl", "3xl", "4xl"}

\* the sizeMap of getTextSizeClass, a row for each base size
WorkspaceSizeMap(baseSize) ==
    CASE baseSize = "sm" -> <<"[10px]", "xs", "sm", "base", "lg">>
      [] baseSize = "base" -> <<"xs", "sm", "base", "lg", "xl">>
      [] baseSize = "lg" -> <<"sm", "base", "lg", "xl", "2xl">>
      [] baseSize = "xl" -> <<"base", "lg", "xl", "2xl", "3xl">>
      [] baseSize = "2xl" -> <<"lg", "xl", "2xl", "3xl", "4xl">>
      [] baseSize = "3xl" -> <<"xl", "2xl", "3xl", "4xl", "5xl">>
      [] baseSize = "4xl" -> <<"2xl", "3xl", "4xl", "5xl", "6xl">>

\* mutant of getTextSizeClass: the row of sm is the card's row of text-xs
getTextSizeClassCopiedRow(baseSize, size) ==
    IF baseSize \in BaseSizes /\ size \in Range(FontSizes)
    THEN TextClass((IF baseSize = "sm" THEN <<"[8px]", "[10px]", "xs", "sm", "base">>
                    ELSE WorkspaceSizeMap(baseSize))[SizeColumn(size)])
    ELSE TextClass(baseSize)

\* sizeMap[baseSize]?.[fontSize] || `text-${baseSize}`
getTextSizeClass(baseSize, size) ==
    IF baseSize \in BaseSizes /\ size \in Range(FontSizes)
    THEN TextClass(WorkspaceSizeMap(baseSize)[SizeColumn(size)])
    ELSE TextClass(baseSize)

\* ---- StoryCard ----
\* entry.styleConfig?.fontFamily || 'basic' and entry.styleConfig?.fontSize || 'medium'
StoryCardFontFamily(entry) ==
    IF entry.styleConfig.fontFamily = "" THEN "basic" ELSE entry.styleConfig.fontFamily
StoryCardFontSize(entry) ==
    IF entry.styleConfig.fontSize = "" THEN "medium" ELSE entry.styleConfig.fontSize

StoryCardHeaderFontClass(family) ==
    CASE family = "cute" -> "font-['Jua']"
      [] family = "hand" -> "font-['Nanum_Pen_Script']"
      [] family = "dongle" -> "font-['Dongle']"
      [] family = "gamja" -> "font-['Gamja_Flower']"
      [] family = "poor" -> "font-['Poor_Story']"
      [] OTHER -> "font-handwritten"

StoryCardBodyFontClass(family) ==
    CASE family = "cute" -> "font-['Jua']"
      [] family = "hand" -> "font-['Nanum_Pen_Script']"
      [] family = "dongle" -> "font-['Dongle']"
      [] family = "gamja" -> "font-['Gamja_Flower']"
      [] family = "poor" -> "font-['Poor_Story']"
      [] OTHER -> "font-sans"

CardBaseClasses == {TextClass(b) : b \in {"xs", "sm", "base", "lg", "xl", "2xl", "3xl", "4xl"}}

\* the sizeMap of getSizeClass, a row for each base class
StoryCardSizeMap(baseClass) ==
    CASE baseClass = TextClass("xs") -> <<"[8px]", "[10px]", "xs", "sm", "base">>
      [] baseClass = TextClass("sm") -> <<"[10px]", "xs", "sm", "base", "lg">>
      [] baseClass = TextClass("base") -> <<"xs", "sm", "base", "lg", "xl">>
      [] baseClass = TextClass("lg") -> <<"sm", "base", "lg", "xl", "2xl">>
      [] baseClass = TextClass("xl") -> <<"base", "lg", "xl", "2xl", "3xl">>
      [] baseClass = TextClass("2xl") -> <<"lg", "xl", "2xl", "3xl", "4xl">>
      [] baseClass = TextClass("3xl") -> <<"xl", "2xl", "3xl", "4xl", "5xl">>
      [] baseClass = TextClass("4xl") -> <<"2xl", "3xl", "4xl", "5xl", "6xl">>

\* sizeMap[baseClass]?.[fontSize] || baseClass
getSizeClass(baseClass, size) ==
    IF baseClass \in CardBaseClasses /\ size \in Range(FontSizes)
    THEN TextClass(StoryCardSizeMap(baseClass)[SizeColumn(size)])
    ELSE baseClass

\* the card of the preview and of the export: <StoryCard entry={getCurrentEntry()} />
RenderedCard == getCurrentEntry(RenderClosure, "1")

\* a draft in the workspace, every style, the editor and the preview
NextStyled ==
    \/ setUrl("youtube link")
    \/ handleAnalyze
    \/ handleAnalyzeResolved(FormattedText)
    \/ toggleFontFamily
    \/ toggleFontSize
    \/ toggleDrawingLevel
    \/ toggleWritingGrade
    \/ \E b \in BOOLEAN : setIsPreviewMode(b)

SpecStyled == InitWorkspaceApp /\ [][NextStyled]_vars

\* C29: editing and export apply the style identically: in every render,
\* whatever font family and font size the toggles have chosen, the header
\* and body font classes of the workspace are those of the card made from
\* the workspace, and for every base size b of sm, base, lg, xl, 2xl, 3xl
\* and 4xl the workspace's getTextSizeClass(b) is the card's
\* getSizeClass('text-' + b); at the font size 'medium' both are text-b.
C29_SameStyleInEditorAndCard ==
    hasContent =>
    /\ getHeaderFontClass(fontFamily) =
            StoryCardHeaderFontClass(StoryCardFontFamily(RenderedCard))
    /\ getBodyFontClass(fontFamily) =
            StoryCardBodyFontClass(StoryCardFontFamily(RenderedCard))
    /\ \A b \in BaseSizes :
            /\ getTextSizeClass(b, fontSize) =
                    getSizeClass(TextClass(b), StoryCardFontSize(RenderedCard))
            /\ fontSize = "medium" =>
                    /\ getTextSizeClass(b, fontSize) = TextClass(b)
                    /\ getSizeClass(TextClass(b), StoryCardFontSize(RenderedCard)) = TextClass(b)

\* the preview of a card in the smallest size of the font 'poor':
\* text-[10px] for the base size sm in the editor and on the card
C29_Witness ==
    /\ lastCall.op = "setIsPreviewMode"
    /\ hasContent /\ isPreviewMode
    /\ fontFamily = "poor" /\ fontSize = "x-small"
    /\ getTextSizeClass("sm", fontSize) = TextClass("[10px]")
    /\ getSizeClass(TextClass("sm"), StoryCardFontSize(RenderedCard)) = TextClass("[10px]")
    /\ StoryCardHeaderFontClass(StoryCardFontFamily(RenderedCard)) = "font-['Poor_Story']"

====
